---- MODULE Spec2Model ----
(***************************************************************************)
(* Verification model of the OpenCL / OpenGL interoperability sample       *)
(* (examples/cxx-opencl/src/OpenGLInterop.cpp) and of the platform and     *)
(* device selection of examples/cxx-opencl/src/common/oclobject.cpp.       *)
(*                                                                         *)
(* Every window-procedure handler is one action.  A handler is a straight  *)
(* line of API calls, each wrapped (or not) in one of the checking macros; *)
(* the driver decides which call fails, so the index of the failing call   *)
(* is an input of the action.  The calls a handler executed are kept in    *)
(* "log", in program order.                                                *)
(***************************************************************************)
EXTENDS Integers, Sequences, FiniteSets, TLC

VARIABLES
    pc,                 \* position of main(): "start", "loop", "exited"
    g_mode,             \* INTEROP_MODE
    g_mem,              \* cl_mem handle: "null" or the kind of object it names
    g_pbo,              \* GLuint buffer name, 0 = none
    g_InitDone,
    g_bImplicitSync,
    g_iteration,
    g_overall_fps,      \* the four float sums, in abstract ticks
    g_full_update_time,
    g_kernel_time,
    g_render_time,
    acquired,           \* the shared object is owned by the compute side
    mapped,             \* the pixel buffer object is mapped to the host
    glError,            \* the GL error flag read and cleared by glGetError
    quit,               \* PostQuitMessage was called
    event,              \* the last handler that ran
    log,                \* the calls that handler executed, in order
    failed,             \* the call the driver failed in it, or "none"
    result,             \* what the handler's body returned
    hostPtr,            \* what verifyZeroCopyPtr found of the pointer mapped in it
    report,             \* the performance report it printed
    kernelCall,         \* the kernel it enqueued, with the arguments set
    sel,                \* platform / device selection (see SpecSel)
    call,               \* a call of parseDeviceType or of InitCL's device search
    basic,              \* an OpenCLBasic object (see SpecBasic)
    program             \* an OpenCLProgram object (see SpecProgram)

vars == <<pc, g_mode, g_mem, g_pbo, g_InitDone, g_bImplicitSync, g_iteration,
          g_overall_fps, g_full_update_time, g_kernel_time, g_render_time,
          acquired, mapped, glError, quit, event, log, failed, result,
          hostPtr, report, kernelCall, sel, call, basic, program>>

libVars == <<sel, call, basic, program>>

interopVars == <<pc, g_mode, g_mem, g_pbo, g_InitDone, g_bImplicitSync,
          g_iteration, g_overall_fps, g_full_update_time, g_kernel_time,
          g_render_time, acquired, mapped, glError, quit, event, log, failed,
          result, hostPtr, report, kernelCall>>

INTEROP_MODE == {"eModeBufferMap", "eModeBufferPBO", "eModeTexture"}

g_iterations_num == 255

(***************************************************************************)
(* The checking macros.  A step is [n |-> call, k |-> macro].              *)
(*   GL_API_CHECK      runs the call, then fails if glGetError() reports a *)
(*                     pending error (glGetError clears the flag);         *)
(*   CL_API_CHECK,                                                         *)
(*   GENERAL_API_CHECK fail if the call itself failed;                     *)
(*   gl / cl           an unchecked call: a GL one leaves its error in the *)
(*                     flag, a CL one loses it;                            *)
(*   call              a function of the program that cannot fail.         *)
(***************************************************************************)
Step(n, k) == [n |-> n, k |-> k]

GL_API_CHECK(n) == Step(n, "GL_API_CHECK")
CL_API_CHECK(n) == Step(n, "CL_API_CHECK")
GENERAL_API_CHECK(n) == Step(n, "GENERAL_API_CHECK")
GLUnchecked(n) == Step(n, "gl")
CLUnchecked(n) == Step(n, "cl")
PlainCall(n) == Step(n, "call")

\* the calls of a program that the driver may fail
FailPoints(prog) == {0} \cup {i \in 1..Len(prog) : prog[i].k # "call"}

\* Runs prog from step i; failAt is the step whose call fails (0: none),
\* flag the GL error flag.  last is the last step executed.
RECURSIVE Exec(_, _, _, _)
Exec(prog, i, failAt, flag) ==
    IF i > Len(prog)
    THEN [last |-> Len(prog), ok |-> TRUE, glErr |-> flag]
    ELSE LET k == prog[i].k
             bad == (i = failAt)
             f2 == IF k \in {"GL_API_CHECK", "gl"} THEN flag \/ bad ELSE flag
         IN  CASE k = "GL_API_CHECK" ->
                    IF f2 THEN [last |-> i, ok |-> FALSE, glErr |-> FALSE]
                          ELSE Exec(prog, i + 1, failAt, f2)
               [] k \in {"CL_API_CHECK", "GENERAL_API_CHECK"} ->
                    IF bad THEN [last |-> i, ok |-> FALSE, glErr |-> f2]
                           ELSE Exec(prog, i + 1, failAt, f2)
               [] OTHER -> Exec(prog, i + 1, failAt, f2)

Names(prog) == [i \in 1..Len(prog) |-> prog[i].n]

\* position of a call in a sequence of call names, 0 if absent
Pos(s, n) == IF \E i \in 1..Len(s) : s[i] = n
             THEN CHOOSE i \in 1..Len(s) : s[i] = n
             ELSE 0

\* the call was executed and did what it is for
Effective(prog, r, failAt, n) ==
    \E i \in 1..r.last : prog[i].n = n /\ i # failAt

\* the call was executed and its check let the function continue
Passed(prog, r, n) ==
    \E i \in 1..r.last : prog[i].n = n /\ (i < r.last \/ r.ok)

Executed(prog, r, n) == \E i \in 1..r.last : prog[i].n = n

(***************************************************************************)
(* The frame.  CallCLKernel binds the two arguments, enqueues the kernel   *)
(* and blocks on clFinish.                                                 *)
(***************************************************************************)
g_width == 1024

g_height == 1024

\* a float as the quotient of two integers; a cl_uchar is its value over 1
Quotient(n, d) == [n |-> n, d |-> d]

\* mutant: a conversion that keeps seven bits
cl_uchar_SevenBits(i) == i % 128

\* int to cl_uchar
cl_uchar(i) == i % 256

\* no clEnqueueNDRangeKernel in the handler
NoKernelCall ==
    [kernel |-> "none", arg1 |-> "null", work_dim |-> 0,
     global_work_size |-> << >>, type |-> "none", pattern |-> << >>]

\* mutant: the buffer modes put the counter into the same component
KernelCall_OneComponent(mode, mem, iteration) ==
    IF mode = "eModeTexture"
    THEN [kernel |-> "g_kernel_image", arg1 |-> mem, work_dim |-> 2,
          global_work_size |-> << g_width, g_height >>,
          type |-> "cl_float4",
          pattern |-> << Quotient(iteration, g_iterations_num),
                         Quotient(0, 1), Quotient(0, 1), Quotient(1, 1) >>]
    ELSE [kernel |-> "g_kernel_buffer", arg1 |-> mem, work_dim |-> 1,
          global_work_size |-> << g_width * g_height >>,
          type |-> "cl_uchar4",
          pattern |-> << Quotient(0, 1),
                         Quotient(cl_uchar(iteration), 1),
                         Quotient(0, 1),
                         Quotient(255, 1) >>]

\* CallCLKernel: the kernel of the mode, its two arguments (the pattern of
\* the frame and g_mem) and the range it is enqueued over
KernelCall(mode, mem, iteration) ==
    IF mode = "eModeTexture"
    THEN [kernel |-> "g_kernel_image", arg1 |-> mem, work_dim |-> 2,
          global_work_size |-> << g_width, g_height >>,
          type |-> "cl_float4",
          pattern |-> << Quotient(iteration, g_iterations_num),
                         Quotient(0, 1), Quotient(0, 1), Quotient(1, 1) >>]
    ELSE [kernel |-> "g_kernel_buffer", arg1 |-> mem, work_dim |-> 1,
          global_work_size |-> << g_width * g_height >>,
          type |-> "cl_uchar4",
          pattern |-> << Quotient(0, 1),
                         Quotient(cl_uchar((IF mode = "eModeBufferPBO" THEN 1 ELSE 0) * iteration), 1),
                         Quotient(cl_uchar((IF mode = "eModeBufferMap" THEN 1 ELSE 0) * iteration), 1),
                         Quotient(255, 1) >>]

\* mutant: the kernel is enqueued and nothing waits for it
CallCLKernel_NoFinish ==
    << CL_API_CHECK("clSetKernelArg_0"),
       CL_API_CHECK("clSetKernelArg_1"),
       CL_API_CHECK("clEnqueueNDRangeKernel") >>

CallCLKernel ==
    << CL_API_CHECK("clSetKernelArg_0"),
       CL_API_CHECK("clSetKernelArg_1"),
       CL_API_CHECK("clEnqueueNDRangeKernel"),
       CL_API_CHECK("clFinish_kernel") >>

\* mutant: the test of the flag before the acquire is inverted
UpdateGLObjectTexture_FlagInverted(implicitSync) ==
    (IF implicitSync THEN << GL_API_CHECK("glFinish") >> ELSE << >>)
    \o << CL_API_CHECK("clEnqueueAcquireGLObjects") >>
    \o CallCLKernel
    \o << CL_API_CHECK("clEnqueueReleaseGLObjects") >>
    \o (IF ~implicitSync THEN << CL_API_CHECK("clFinish") >> ELSE << >>)

UpdateGLObjectTexture(implicitSync) ==
    (IF ~implicitSync THEN << GL_API_CHECK("glFinish") >> ELSE << >>)
    \o << CL_API_CHECK("clEnqueueAcquireGLObjects") >>
    \o CallCLKernel
    \o << CL_API_CHECK("clEnqueueReleaseGLObjects") >>
    \o (IF ~implicitSync THEN << CL_API_CHECK("clFinish") >> ELSE << >>)

\* mutant: the texture is updated from the buffer before clFinish
UpdateGLObjectBuffer_LateFinish(implicitSync) ==
    (IF ~implicitSync THEN << GLUnchecked("glFinish") >> ELSE << >>)
    \o << CL_API_CHECK("clEnqueueAcquireGLObjects") >>
    \o CallCLKernel
    \o << CL_API_CHECK("clEnqueueReleaseGLObjects") >>
    \o << GL_API_CHECK("glBindBuffer_pbo"),
          GL_API_CHECK("glBindTexture"),
          GL_API_CHECK("glTexSubImage2D"),
          GL_API_CHECK("glBindBuffer_0") >>
    \o (IF ~implicitSync THEN << CL_API_CHECK("clFinish") >> ELSE << >>)

\* mutant: the kernel is called before the acquire
UpdateGLObjectBuffer_DispatchFirst(implicitSync) ==
    (IF ~implicitSync THEN << GLUnchecked("glFinish") >> ELSE << >>)
    \o CallCLKernel
    \o << CL_API_CHECK("clEnqueueAcquireGLObjects") >>
    \o << CL_API_CHECK("clEnqueueReleaseGLObjects") >>
    \o (IF ~implicitSync THEN << CL_API_CHECK("clFinish") >> ELSE << >>)
    \o << GL_API_CHECK("glBindBuffer_pbo"),
          GL_API_CHECK("glBindTexture"),
          GL_API_CHECK("glTexSubImage2D"),
          GL_API_CHECK("glBindBuffer_0") >>

\* glFinish is called bare here, outside any checking macro
UpdateGLObjectBuffer(implicitSync) ==
    (IF ~implicitSync THEN << GLUnchecked("glFinish") >> ELSE << >>)
    \o << CL_API_CHECK("clEnqueueAcquireGLObjects") >>
    \o CallCLKernel
    \o << CL_API_CHECK("clEnqueueReleaseGLObjects") >>
    \o (IF ~implicitSync THEN << CL_API_CHECK("clFinish") >> ELSE << >>)
    \o << GL_API_CHECK("glBindBuffer_pbo"),
          GL_API_CHECK("glBindTexture"),
          GL_API_CHECK("glTexSubImage2D"),
          GL_API_CHECK("glBindBuffer_0") >>

\* The result p0 of clEnqueueMapBuffer is never tested: the check that
\* follows it tests p, the pointer glMapBuffer returned, which is not null
\* once GL_API_CHECK(p = glMapBuffer(..)) has passed.
\* mutant: the texture is updated while the buffer is still mapped
UpdateGLObjectMap_UpdateWhileMapped(implicitSync, zeroCopy) ==
    << GL_API_CHECK("glBindBuffer_pbo"),
       GL_API_CHECK("glMapBuffer"),
       PlainCall("verifyZeroCopyPtr") >>
    \o (IF zeroCopy THEN << >> ELSE << PlainCall("printf_WARNING") >>)
    \o << CL_API_CHECK("clCreateBuffer") >>
    \o CallCLKernel
    \o << CLUnchecked("clEnqueueMapBuffer"),
          CL_API_CHECK("clEnqueueUnmapMemObject"),
          CL_API_CHECK("clReleaseMemObject"),
          GL_API_CHECK("glBindTexture"),
          GL_API_CHECK("glTexSubImage2D"),
          GL_API_CHECK("glUnmapBuffer"),
          GL_API_CHECK("glBindBuffer_0") >>

\* mutant: the warning of the zero-copy test is not printed
UpdateGLObjectMap_Silent(implicitSync, zeroCopy) ==
    << GL_API_CHECK("glBindBuffer_pbo"),
       GL_API_CHECK("glMapBuffer"),
       PlainCall("verifyZeroCopyPtr"),
       CL_API_CHECK("clCreateBuffer") >>
    \o CallCLKernel
    \o << CLUnchecked("clEnqueueMapBuffer"),
          CL_API_CHECK("clEnqueueUnmapMemObject"),
          CL_API_CHECK("clReleaseMemObject"),
          GL_API_CHECK("glUnmapBuffer"),
          GL_API_CHECK("glBindTexture"),
          GL_API_CHECK("glTexSubImage2D"),
          GL_API_CHECK("glBindBuffer_0") >>

UpdateGLObjectMap(implicitSync, zeroCopy) ==
    << GL_API_CHECK("glBindBuffer_pbo"),
       GL_API_CHECK("glMapBuffer"),
       PlainCall("verifyZeroCopyPtr") >>
    \o (IF zeroCopy THEN << >> ELSE << PlainCall("printf_WARNING") >>)
    \o << CL_API_CHECK("clCreateBuffer") >>
    \o CallCLKernel
    \o << CLUnchecked("clEnqueueMapBuffer"),
          CL_API_CHECK("clEnqueueUnmapMemObject"),
          CL_API_CHECK("clReleaseMemObject"),
          GL_API_CHECK("glUnmapBuffer"),
          GL_API_CHECK("glBindTexture"),
          GL_API_CHECK("glTexSubImage2D"),
          GL_API_CHECK("glBindBuffer_0") >>

UpdateGLObject(mode, implicitSync, zeroCopy) ==
    CASE mode = "eModeTexture" -> UpdateGLObjectTexture(implicitSync)
      [] mode = "eModeBufferPBO" -> UpdateGLObjectBuffer(implicitSync)
      [] mode = "eModeBufferMap" -> UpdateGLObjectMap(implicitSync, zeroCopy)

\* Render: the update of the mode, then the textured quad (glBegin..glEnd,
\* unchecked) and SwapBuffers.
Render(mode, implicitSync, zeroCopy) ==
    UpdateGLObject(mode, implicitSync, zeroCopy)
    \o << GL_API_CHECK("glBindTexture_draw"),
          GLUnchecked("glBegin_glEnd"),
          GENERAL_API_CHECK("SwapBuffers") >>

ResetCounters ==
    /\ g_iteration' = 0
    /\ g_overall_fps' = 0
    /\ g_full_update_time' = 0
    /\ g_kernel_time' = 0
    /\ g_render_time' = 0

(***************************************************************************)
(* Persistent objects of a mode.                                           *)
(***************************************************************************)
CreateCLMemObject(mode) ==
    CASE mode = "eModeTexture" -> << CL_API_CHECK("clCreateFromGLTexture") >>
      [] mode = "eModeBufferPBO" -> << CL_API_CHECK("clCreateFromGLBuffer") >>
      [] mode = "eModeBufferMap" -> << >>

CreateGLObject(mode) ==
    IF mode # "eModeTexture"
    THEN << GL_API_CHECK("glGenBuffers"),
            GL_API_CHECK("glBindBuffer_array"),
            GL_API_CHECK("glBufferData"),
            GL_API_CHECK("glBindBuffer_0") >>
    ELSE << >>

\* the object a successful CreateCLMemObject leaves in g_mem
MemOfMode(mode) ==
    CASE mode = "eModeTexture" -> "image"
      [] mode = "eModeBufferPBO" -> "glbuffer"
      [] mode = "eModeBufferMap" -> "null"

\* VK_TAB: the mode that follows
NextMode(mode) ==
    IF mode = "eModeTexture" THEN "eModeBufferPBO"
    ELSE IF mode = "eModeBufferPBO" THEN "eModeBufferMap"
    ELSE "eModeTexture"

\* mutant: the pixel buffer object of the old mode is not deleted
SwitchProgram_KeepPbo(mem, pbo, newMode) ==
    (IF mem # "null" THEN << CL_API_CHECK("clReleaseMemObject") >> ELSE << >>)
    \o CreateGLObject(newMode)
    \o CreateCLMemObject(newMode)
    \o << PlainCall("ResetCounters") >>

\* mutant: the objects of the new mode are created before the old are released
SwitchProgram_CreateFirst(mem, pbo, newMode) ==
    CreateGLObject(newMode)
    \o CreateCLMemObject(newMode)
    \o (IF mem # "null" THEN << CL_API_CHECK("clReleaseMemObject") >> ELSE << >>)
    \o (IF pbo # 0 THEN << GL_API_CHECK("glDeleteBuffers") >> ELSE << >>)
    \o << PlainCall("ResetCounters") >>

\* VK_TAB: the calls made after g_mode was set to newMode
SwitchProgram(mem, pbo, newMode) ==
    (IF mem # "null" THEN << CL_API_CHECK("clReleaseMemObject") >> ELSE << >>)
    \o (IF pbo # 0 THEN << GL_API_CHECK("glDeleteBuffers") >> ELSE << >>)
    \o CreateGLObject(newMode)
    \o CreateCLMemObject(newMode)
    \o << PlainCall("ResetCounters") >>

\* VK_TAB as a function of the session: the session it leaves
SwitchOutcome(mode, mem, pbo, failAt, flag) ==
    LET newMode == NextMode(mode)
        prog == SwitchProgram(mem, pbo, newMode)
        r == Exec(prog, 1, failAt, flag)
        created == IF newMode = "eModeTexture" THEN "clCreateFromGLTexture"
                   ELSE "clCreateFromGLBuffer"
        mem1 == IF Passed(prog, r, "clReleaseMemObject") THEN "null" ELSE mem
        pbo1 == IF Passed(prog, r, "glDeleteBuffers") THEN 0 ELSE pbo
    IN  [mode |-> newMode,
         mem |-> IF Executed(prog, r, created)
                 THEN (IF Effective(prog, r, failAt, created)
                       THEN MemOfMode(newMode) ELSE "null")
                 ELSE mem1,
         pbo |-> IF Effective(prog, r, failAt, "glGenBuffers") THEN 1 ELSE pbo1,
         ok |-> r.ok,
         glErr |-> r.glErr,
         log |-> SubSeq(Names(prog), 1, r.last),
         failed |-> IF failAt \in 1..r.last THEN prog[failAt].n ELSE "none"]

\* SwitchOutcome, tabulated
SwitchTable ==
    [m \in INTEROP_MODE, c \in {"null", "image", "glbuffer", "hostbuffer"},
     b \in {0, 1}, g \in BOOLEAN |->
        [f \in FailPoints(SwitchProgram(c, b, NextMode(m))) |->
            SwitchOutcome(m, c, b, f, g)]]

(***************************************************************************)
(* main() and the window procedure.                                        *)
(***************************************************************************)
\* no report printed: the handler did not reach the printf calls of Render
NoReport ==
    [printed |-> FALSE, frames |-> 0, divisor |-> g_iterations_num, fps |-> 0,
     update |-> 0, kernel |-> 0, render |-> 0]

InteropInit ==
    /\ pc = "start"
    /\ g_mode = "eModeTexture"
    /\ g_mem = "null"
    /\ g_pbo = 0
    /\ g_InitDone = FALSE
    /\ g_bImplicitSync = FALSE
    /\ g_iteration = 0
    /\ g_overall_fps = 0
    /\ g_full_update_time = 0
    /\ g_kernel_time = 0
    /\ g_render_time = 0
    /\ acquired = FALSE
    /\ mapped = FALSE
    /\ glError = FALSE
    /\ quit = FALSE
    /\ event = "none"
    /\ log = << >>
    /\ failed = "none"
    /\ result = TRUE
    /\ hostPtr = "none"
    /\ report = NoReport
    /\ kernelCall = NoKernelCall

\* A cl_device_type is the set of the positions of its bits that are 1, so
\* that | is set union.
CL_DEVICE_TYPE_DEFAULT == {0}
CL_DEVICE_TYPE_CPU == {1}
CL_DEVICE_TYPE_GPU == {2}
CL_DEVICE_TYPE_ACCELERATOR == {3}
CL_DEVICE_TYPE_ALL == 0..31

\* a device of the GL context: its CL_DEVICE_TYPE and whether its extension
\* string holds cl_khr_gl_sharing and cl_khr_gl_event
GLDeviceKinds ==
    [type : {CL_DEVICE_TYPE_CPU, CL_DEVICE_TYPE_GPU},
     gl_sharing : BOOLEAN, gl_event : BOOLEAN]

MaxGLDevices == 2

\* what CL_DEVICES_FOR_GL_CONTEXT_KHR may return
GLDeviceLists == UNION {[1..n -> GLDeviceKinds] : n \in 0..MaxGLDevices}

\* the masks parseDeviceType hands to InitCL: cpu, gpu, acc, cpu|gpu, all
RequestedTypes ==
    {CL_DEVICE_TYPE_CPU, CL_DEVICE_TYPE_GPU, CL_DEVICE_TYPE_ACCELERATOR,
     CL_DEVICE_TYPE_CPU \cup CL_DEVICE_TYPE_GPU, CL_DEVICE_TYPE_ALL}

\* the device loop of InitCL from devices[i] on (1-based); g_device is 0 or
\* the position of the device it names
RECURSIVE DeviceSearch(_, _, _, _)
DeviceSearch(devices, i, device_type, g_device) ==
    IF i > Len(devices)
    THEN [g_device |-> g_device, g_bImplicitSync |-> FALSE]
    ELSE IF device_type = devices[i].type
    THEN IF ~devices[i].gl_sharing
         THEN DeviceSearch(devices, i + 1, device_type, i)
         ELSE [g_device |-> i, g_bImplicitSync |-> devices[i].gl_event]
    ELSE DeviceSearch(devices, i + 1, device_type, g_device)

\* InitCL: the platform, the device search over the devices of the GL context
\* (which ends with if(!g_device) return FALSE), the context, the queue, the
\* shared object, the program and the two kernels
InitCLProgram ==
    << GENERAL_API_CHECK("selectPlatform"),
       GENERAL_API_CHECK("findDevice"),
       GENERAL_API_CHECK("clCreateContext"),
       GENERAL_API_CHECK("clCreateCommandQueue") >>
    \o CreateCLMemObject("eModeTexture")
    \o << GENERAL_API_CHECK("createAndBuildProgram"),
          CL_API_CHECK("clCreateKernel_buffer"),
          CL_API_CHECK("clCreateKernel_image") >>

\* mutant: InitCL is called before the window and InitGL
InitProgram_CLFirst ==
    InitCLProgram
    \o << GENERAL_API_CHECK("CreateWindow"),
          GENERAL_API_CHECK("InitGL") >>
    \o CreateGLObject("eModeTexture")

\* InitInstance: the window, InitGL (which ends with CreateGLObject), InitCL
InitProgram ==
    << GENERAL_API_CHECK("CreateWindow"),
       GENERAL_API_CHECK("InitGL") >>
    \o CreateGLObject("eModeTexture")
    \o InitCLProgram

\* the step at which prog returns FALSE: the one the driver fails (failAt), or
\* the device search when it is reached and leaves g_device null
StopAt(prog, failAt, found) ==
    LET search == Pos(Names(prog), "findDevice")
    IN  IF ~found /\ (failAt = 0 \/ failAt > search) THEN search ELSE failAt

\* the GL context offers devices, the command line asks for device_type
InitInstance ==
    /\ pc = "start"
    /\ \E failAt \in FailPoints(InitProgram), devices \in GLDeviceLists,
          device_type \in RequestedTypes :
         LET f == DeviceSearch(devices, 1, device_type, 0)
             stop == StopAt(InitProgram, failAt, f.g_device # 0)
             r == Exec(InitProgram, 1, stop, glError)
         IN  /\ pc' = IF r.ok THEN "loop" ELSE "exited"
             /\ g_InitDone' = r.ok
             /\ g_bImplicitSync' =
                  (Effective(InitProgram, r, stop, "findDevice")
                     /\ f.g_bImplicitSync)
             /\ g_mem' = IF Effective(InitProgram, r, stop, "clCreateFromGLTexture")
                         THEN "image" ELSE "null"
             /\ glError' = r.glErr
             /\ event' = "init"
             /\ log' = SubSeq(Names(InitProgram), 1, r.last)
             /\ failed' = IF stop \in 1..r.last THEN InitProgram[stop].n
                          ELSE "none"
             /\ result' = r.ok
             /\ hostPtr' = "none"
             /\ report' = NoReport
             /\ kernelCall' = NoKernelCall
    /\ UNCHANGED <<g_mode, g_pbo, g_iteration, g_overall_fps,
                   g_full_update_time, g_kernel_time, g_render_time,
                   acquired, mapped, quit, libVars>>

\* What a handler that reaches "if(!g_InitDone || !Render()) PostQuitMessage(0)"
\* after the calls of prefix does to the session.  entered: that line was
\* reached (a failing call of prefix returns from the window procedure
\* before it).  "keep" leaves a variable as it was.
FrameOutcome(prefix, mode, sync, zeroCopy, failAt, flag) ==
    LET prog == prefix \o Render(mode, sync, zeroCopy)
        r == Exec(prog, 1, failAt, flag)
    IN  [ok |-> r.ok,
         entered |-> (r.ok \/ r.last > Len(prefix)),
         kernelDone |-> Passed(prog, r, "clFinish_kernel"),
         enqueued |-> Executed(prog, r, "clEnqueueNDRangeKernel"),
         mem |-> IF Passed(prog, r, "clReleaseMemObject") THEN "null"
                 ELSE IF Executed(prog, r, "clCreateBuffer")
                 THEN (IF Effective(prog, r, failAt, "clCreateBuffer")
                       THEN "hostbuffer" ELSE "null")
                 ELSE "keep",
         acq |-> IF Effective(prog, r, failAt, "clEnqueueReleaseGLObjects")
                 THEN "no"
                 ELSE IF Effective(prog, r, failAt, "clEnqueueAcquireGLObjects")
                 THEN "yes" ELSE "keep",
         map |-> IF Effective(prog, r, failAt, "glUnmapBuffer") THEN "no"
                 ELSE IF Effective(prog, r, failAt, "glMapBuffer") THEN "yes"
                 ELSE "keep",
         glErr |-> r.glErr,
         log |-> SubSeq(Names(prog), 1, r.last),
         failed |-> IF failAt \in 1..r.last THEN prog[failAt].n ELSE "none",
         ptr |-> IF ~Executed(prog, r, "verifyZeroCopyPtr") THEN "none"
                 ELSE IF zeroCopy THEN "zeroCopy" ELSE "unaligned"]

\* WM_PAINT has no call before that line; WM_SIZE sets the viewport first and
\* falls through
Prefixes == {<< >>, << GL_API_CHECK("glViewport") >>}

\* FrameOutcome, tabulated

FrameTable ==
    [p \in Prefixes, m \in INTEROP_MODE, s \in BOOLEAN, z \in BOOLEAN,
     g \in BOOLEAN |->
        [f \in FailPoints(p \o Render(m, s, z)) |->
            FrameOutcome(p, m, s, z, f, g)]]

\* what verifyZeroCopyPtr may return for the pointer glMapBuffer gave; the
\* other modes map nothing
PtrChecks(mode) == IF mode = "eModeBufferMap" THEN BOOLEAN ELSE {TRUE}

Frame(prefix, ev) ==
    /\ pc = "loop"
    /\ ~quit
    /\ \E zeroCopy \in PtrChecks(g_mode) :
       \E failAt \in DOMAIN FrameTable[prefix, g_mode, g_bImplicitSync, zeroCopy, glError] :
             LET r == FrameTable[prefix, g_mode, g_bImplicitSync, zeroCopy, glError][failAt]
                 rendered == g_InitDone /\ r.entered
                 reporting == r.ok /\ g_iteration = g_iterations_num
             IN  /\ IF reporting
                    THEN ResetCounters
                    ELSE /\ g_iteration' = IF r.ok THEN g_iteration + 1
                                           ELSE g_iteration
                         /\ g_overall_fps' = IF r.ok THEN g_overall_fps + 1
                                             ELSE g_overall_fps
                         /\ g_full_update_time' =
                              IF rendered THEN g_full_update_time + 1
                              ELSE g_full_update_time
                         /\ g_kernel_time' = IF r.kernelDone THEN g_kernel_time + 1
                                             ELSE g_kernel_time
                         /\ g_render_time' = IF r.ok THEN g_render_time + 1
                                             ELSE g_render_time
                 /\ g_mem' = IF r.mem = "keep" THEN g_mem ELSE r.mem
                 /\ acquired' = IF r.acq = "keep" THEN acquired ELSE r.acq = "yes"
                 /\ mapped' = IF r.map = "keep" THEN mapped ELSE r.map = "yes"
                 /\ glError' = r.glErr
                 /\ quit' = (r.entered /\ ~(g_InitDone /\ r.ok))
                 /\ event' = ev
                 /\ log' = r.log
                 /\ failed' = r.failed
                 /\ result' = r.ok
                 /\ hostPtr' = r.ptr
                 /\ kernelCall' =
                      IF r.enqueued
                      THEN KernelCall(g_mode,
                                      IF g_mode = "eModeBufferMap"
                                      THEN "hostbuffer" ELSE g_mem,
                                      g_iteration)
                      ELSE NoKernelCall
                 /\ report' = IF reporting
                              THEN [printed |-> TRUE,
                                    frames |-> g_iteration + 1,
                                    divisor |-> g_iterations_num,
                                    fps |-> g_overall_fps,
                                    update |-> g_full_update_time + 1,
                                    kernel |-> g_kernel_time + 1,
                                    render |-> g_render_time + 1]
                              ELSE NoReport
    /\ UNCHANGED <<pc, g_mode, g_pbo, g_InitDone, g_bImplicitSync, libVars>>

WM_PAINT == Frame(<< >>, "WM_PAINT")

\* WM_SIZE sets the viewport and falls through to WM_PAINT
WM_SIZE == Frame(<< GL_API_CHECK("glViewport") >>, "WM_SIZE")

\* WM_KEYDOWN, VK_TAB.  Every macro of the handler returns FALSE from the
\* window procedure; nothing posts a quit message.
WM_KEYDOWN_VK_TAB ==
    /\ pc = "loop"
    /\ ~quit
    /\ \E failAt \in DOMAIN SwitchTable[g_mode, g_mem, g_pbo, glError] :
         LET s == SwitchTable[g_mode, g_mem, g_pbo, glError][failAt]
         IN  /\ g_mode' = s.mode
             /\ g_mem' = s.mem
             /\ g_pbo' = s.pbo
             /\ glError' = s.glErr
             /\ IF s.ok THEN ResetCounters
                ELSE UNCHANGED <<g_iteration, g_overall_fps, g_full_update_time,
                                 g_kernel_time, g_render_time>>
             /\ event' = "VK_TAB"
             /\ log' = s.log
             /\ failed' = s.failed
             /\ result' = s.ok
             /\ hostPtr' = "none"
             /\ report' = NoReport
             /\ kernelCall' = NoKernelCall
    /\ UNCHANGED <<pc, g_InitDone, g_bImplicitSync, acquired, mapped, quit, libVars>>

WM_DESTROY ==
    /\ pc = "loop"
    /\ ~quit
    /\ quit' = TRUE
    /\ event' = "WM_DESTROY"
    /\ log' = << >>
    /\ failed' = "none"
    /\ result' = TRUE
    /\ hostPtr' = "none"
    /\ report' = NoReport
    /\ kernelCall' = NoKernelCall
    /\ UNCHANGED <<pc, g_mode, g_mem, g_pbo, g_InitDone, g_bImplicitSync,
                   g_iteration, g_overall_fps, g_full_update_time,
                   g_kernel_time, g_render_time, acquired, mapped, glError, libVars>>

\* WM_COMMAND / IDM_EXIT: the calls of the exit command; the shared object is
\* released only when g_mem is set
ExitProgram(mem) ==
    (IF mem # "null" THEN << CL_API_CHECK("clReleaseMemObject") >> ELSE << >>)
    \o << CL_API_CHECK("clRetainCommandQueue"),
          CL_API_CHECK("clReleaseProgram"),
          CL_API_CHECK("clReleaseKernel_buffer"),
          CL_API_CHECK("clReleaseKernel_image"),
          CL_API_CHECK("clReleaseContext"),
          PlainCall("wglMakeCurrent"),
          PlainCall("wglDeleteContext"),
          PlainCall("DeleteDC"),
          PlainCall("DestroyWindow") >>

\* DestroyWindow sends WM_DESTROY, whose handler posts the quit message; a
\* failing CL_API_CHECK returns from the window procedure before it
WM_COMMAND_IDM_EXIT ==
    /\ pc = "loop"
    /\ ~quit
    /\ \E failAt \in FailPoints(ExitProgram(g_mem)) :
         LET prog == ExitProgram(g_mem)
             r == Exec(prog, 1, failAt, glError)
         IN  /\ quit' = r.ok
             /\ event' = "IDM_EXIT"
             /\ log' = SubSeq(Names(prog), 1, r.last)
             /\ failed' = IF failAt \in 1..r.last THEN prog[failAt].n
                          ELSE "none"
             /\ result' = r.ok
             /\ hostPtr' = "none"
             /\ report' = NoReport
             /\ kernelCall' = NoKernelCall
    /\ UNCHANGED <<pc, g_mode, g_mem, g_pbo, g_InitDone, g_bImplicitSync,
                   g_iteration, g_overall_fps, g_full_update_time,
                   g_kernel_time, g_render_time, acquired, mapped, glError, libVars>>

\* GetMessage returns 0 on WM_QUIT and main returns
MessageLoopEnd ==
    /\ pc = "loop"
    /\ quit
    /\ pc' = "exited"
    /\ UNCHANGED <<g_mode, g_mem, g_pbo, g_InitDone, g_bImplicitSync,
                   g_iteration, g_overall_fps, g_full_update_time,
                   g_kernel_time, g_render_time, acquired, mapped, glError,
                   quit, event, log, failed, result, hostPtr, report,
                   kernelCall, libVars>>

SelIdle == [phase |-> "idle"]

CallIdle == [phase |-> "idle"]

BasicIdle == [phase |-> "idle"]

ProgramIdle == [phase |-> "idle"]

Init ==
    InteropInit /\ sel = SelIdle /\ call = CallIdle /\ basic = BasicIdle
    /\ program = ProgramIdle

Next ==
    \/ InitInstance
    \/ WM_PAINT
    \/ WM_SIZE
    \/ WM_KEYDOWN_VK_TAB
    \/ WM_COMMAND_IDM_EXIT
    \/ WM_DESTROY
    \/ MessageLoopEnd

Spec == Init /\ [][Next]_vars

(***************************************************************************)
(* Properties of the frame and of the mode switch.                         *)
(***************************************************************************)
FrameEvent == event \in {"WM_PAINT", "WM_SIZE"}

In(n) == Pos(log, n) > 0

Before(a, b) == 0 < Pos(log, a) /\ Pos(log, a) < Pos(log, b)

\* graphics-side uses of the shared object: the texture update from the
\* buffer, the textured quad, the present
GraphicsUses == {"glTexSubImage2D", "glBegin_glEnd", "SwapBuffers"}

\* C1: in Texture and BufferPBO mode the kernel is enqueued only after a
\* successful acquire and before the release, and every graphics-side use of
\* the frame comes after a successful release; in BufferMap mode the kernel is
\* enqueued only between glMapBuffer and glUnmapBuffer; and whenever the
\* message loop can start another frame the object is back with the graphics
\* side (not acquired, not mapped).
C1_DispatchInsideBracket ==
    /\ FrameEvent /\ g_mode \in {"eModeTexture", "eModeBufferPBO"} =>
         /\ In("clEnqueueNDRangeKernel") =>
              /\ Before("clEnqueueAcquireGLObjects", "clEnqueueNDRangeKernel")
              /\ failed # "clEnqueueAcquireGLObjects"
              /\ In("clEnqueueReleaseGLObjects") =>
                   Before("clEnqueueNDRangeKernel", "clEnqueueReleaseGLObjects")
         /\ \A u \in GraphicsUses :
              In(u) => /\ Before("clEnqueueReleaseGLObjects", u)
                       /\ failed # "clEnqueueReleaseGLObjects"
    /\ FrameEvent /\ g_mode = "eModeBufferMap" =>
         (In("clEnqueueNDRangeKernel") =>
              /\ Before("glMapBuffer", "clEnqueueNDRangeKernel")
              /\ failed # "glMapBuffer"
              /\ In("glUnmapBuffer") =>
                   Before("clEnqueueNDRangeKernel", "glUnmapBuffer"))
    /\ pc = "loop" /\ ~quit => ~acquired /\ ~mapped

C1_Witness ==
    /\ FrameEvent /\ result /\ g_mode = "eModeBufferPBO"
    /\ In("clEnqueueNDRangeKernel") /\ In("glTexSubImage2D") /\ In("SwapBuffers")

\* C2 (as claimed): a frame that acquired the object (or mapped the buffer)
\* has issued the release (or the unmap) when the handler returns, whatever
\* call failed in between.
C2_ReleaseOnEveryExit ==
    FrameEvent =>
        /\ In("clEnqueueAcquireGLObjects") /\ failed # "clEnqueueAcquireGLObjects"
              => In("clEnqueueReleaseGLObjects")
        /\ In("glMapBuffer") /\ failed # "glMapBuffer" => In("glUnmapBuffer")

\* the first compute-side calls that touch the shared object
ComputeTouches == {"clEnqueueAcquireGLObjects", "clCreateBuffer",
                   "clEnqueueNDRangeKernel"}

\* C3 (as claimed): in every mode, without implicit synchronization glFinish
\* is executed before the compute side touches the object, and with it no
\* glFinish is executed.
C3_PreFlushEveryMode ==
    FrameEvent =>
        /\ g_bImplicitSync => ~In("glFinish")
        /\ ~g_bImplicitSync =>
             \A t \in ComputeTouches : In(t) => Before("glFinish", t)

\* C3 (amended): that holds in Texture and BufferPBO mode; a BufferMap frame
\* executes no glFinish whatever the flag is.
C3_PreFlushAcquireModes ==
    FrameEvent =>
        /\ g_bImplicitSync \/ g_mode = "eModeBufferMap" => ~In("glFinish")
        /\ ~g_bImplicitSync /\ g_mode # "eModeBufferMap" =>
             \A t \in ComputeTouches : In(t) => Before("glFinish", t)

C3_Witness ==
    /\ FrameEvent /\ result /\ ~g_bImplicitSync /\ g_mode = "eModeTexture"
    /\ Before("glFinish", "clEnqueueAcquireGLObjects")

\* the last compute command of a frame
LastComputeCommand ==
    IF g_mode = "eModeBufferMap" THEN "clEnqueueUnmapMemObject"
    ELSE "clEnqueueReleaseGLObjects"

\* C4 (as claimed): without implicit synchronization, every graphics-side use
\* of a frame is preceded by a clFinish that follows the last compute command.
C4_PostFlushEveryMode ==
    FrameEvent /\ ~g_bImplicitSync =>
        \A u \in GraphicsUses :
            In(u) => \E f \in {"clFinish", "clFinish_kernel"} :
                        Before(LastComputeCommand, f) /\ Before(f, u)

\* C4 (amended): that holds in Texture and BufferPBO mode, where clFinish
\* follows the release.  In a BufferMap frame no clFinish follows the unmap of
\* the compute buffer: the only finish is the one that ends the dispatch, and
\* the blocking clEnqueueMapBuffer comes between it and the unmap.
C4_PostFlushAcquireModes ==
    FrameEvent =>
        /\ ~g_bImplicitSync /\ g_mode # "eModeBufferMap" =>
             \A u \in GraphicsUses :
                In(u) => /\ Before("clEnqueueReleaseGLObjects", "clFinish")
                         /\ Before("clFinish", u)
        /\ g_mode = "eModeBufferMap" =>
             /\ ~In("clFinish")
             /\ In("clEnqueueUnmapMemObject") =>
                  /\ Before("clFinish_kernel", "clEnqueueMapBuffer")
                  /\ Before("clEnqueueMapBuffer", "clEnqueueUnmapMemObject")

C4_Witness ==
    /\ FrameEvent /\ result /\ ~g_bImplicitSync /\ g_mode = "eModeBufferPBO"
    /\ Before("clEnqueueReleaseGLObjects", "clFinish")
    /\ Before("clFinish", "glTexSubImage2D")

CountersZero ==
    /\ g_iteration = 0
    /\ g_overall_fps = 0
    /\ g_full_update_time = 0
    /\ g_kernel_time = 0
    /\ g_render_time = 0

\* the steps of a mode switch, in the order claimed
SwitchOrder == << {"clReleaseMemObject"}, {"glDeleteBuffers"}, {"glGenBuffers"},
                  {"clCreateFromGLTexture", "clCreateFromGLBuffer"},
                  {"ResetCounters"} >>

\* C5: a VK_TAB step executes its calls in the order release the compute
\* object (exactly when g_mem is set), delete the buffer object (exactly when
\* g_pbo is set and the release passed), create a buffer object (only for
\* BufferPBO and BufferMap), create the compute object of the new mode (image
\* for Texture, buffer for BufferPBO, none for BufferMap), reset the counters;
\* nothing is created unless the old handles were released first, and a switch
\* that succeeds has made all the calls of its mode and left zero counters.
C5_SwitchOrder ==
    [][ event' = "VK_TAB" /\ g_mode' # g_mode =>
          LET L == log'
              has(n) == Pos(L, n) > 0
              creates == has("glGenBuffers") \/ has("clCreateFromGLTexture")
                           \/ has("clCreateFromGLBuffer")
          IN  /\ \A i \in 1..Len(SwitchOrder), j \in 1..Len(SwitchOrder) :
                   \A a \in SwitchOrder[i], b \in SwitchOrder[j] :
                     i < j /\ has(a) /\ has(b) => Pos(L, a) < Pos(L, b)
              /\ has("clReleaseMemObject") <=> g_mem # "null"
              /\ has("glDeleteBuffers") <=>
                   g_pbo # 0 /\ failed' # "clReleaseMemObject"
              /\ has("glGenBuffers") =>
                   g_mode' \in {"eModeBufferPBO", "eModeBufferMap"}
              /\ has("clCreateFromGLTexture") => g_mode' = "eModeTexture"
              /\ has("clCreateFromGLBuffer") => g_mode' = "eModeBufferPBO"
              /\ creates =>
                   /\ g_mem # "null" => has("clReleaseMemObject")
                                          /\ failed' # "clReleaseMemObject"
                   /\ g_pbo # 0 => has("glDeleteBuffers")
                                     /\ L[Len(L)] # "glDeleteBuffers"
              /\ result' =>
                   /\ has("glGenBuffers") <=> g_mode' # "eModeTexture"
                   /\ has("clCreateFromGLTexture") <=> g_mode' = "eModeTexture"
                   /\ has("clCreateFromGLBuffer") <=> g_mode' = "eModeBufferPBO"
                   /\ g_pbo # 0 => has("glDeleteBuffers")
                   /\ L[Len(L)] = "ResetCounters"
                   /\ CountersZero'
      ]_vars

C5_Witness ==
    /\ event = "VK_TAB" /\ result /\ g_mode = "eModeBufferMap"
    /\ Before("clReleaseMemObject", "glDeleteBuffers")
    /\ Before("glDeleteBuffers", "glGenBuffers")
    /\ Before("glGenBuffers", "ResetCounters")

\* C6 (as claimed): after every VK_TAB all counters are zero.
C6_CountersZeroAfterSwitch == event = "VK_TAB" => CountersZero

\* C7 (as claimed): VK_TAB moves to the next mode of the cycle, and from any
\* session the message loop can be in, three switches in which no call fails
\* lead back to the same mode with the same handles set.
C7_ThreeSwitchesReturn ==
    pc = "loop" /\ ~quit /\ ~glError =>
        LET s1 == SwitchOutcome(g_mode, g_mem, g_pbo, 0, FALSE)
            s2 == SwitchOutcome(s1.mode, s1.mem, s1.pbo, 0, FALSE)
            s3 == SwitchOutcome(s2.mode, s2.mem, s2.pbo, 0, FALSE)
        IN  /\ s1.ok /\ s2.ok /\ s3.ok
            /\ s1.mode = NextMode(g_mode)
            /\ {g_mode, s1.mode, s2.mode} = INTEROP_MODE
            /\ s3.mode = g_mode
            /\ (s3.pbo # 0) = (g_pbo # 0)
            /\ (s3.mem # "null") = (g_mem # "null")

\* C8 (as claimed): a VK_TAB in which a call fails stops the run.
C8_SwitchFailureFatal == event = "VK_TAB" /\ ~result => quit

\* the calls of the update of the current mode (steps 1 to 6 of a frame)
UpdateCalls ==
    {UpdateGLObject(g_mode, g_bImplicitSync, TRUE)[i].n :
        i \in 1..Len(UpdateGLObject(g_mode, g_bImplicitSync, TRUE))}

\* C9 (as claimed): in a frame, a failing call of the update is the last call
\* of the frame (nothing later, no draw, no swap), the frame returns FALSE and
\* the quit message is posted.
C9_FirstFailureAborts ==
    FrameEvent /\ failed \in UpdateCalls =>
        /\ log[Len(log)] = failed
        /\ ~In("glBegin_glEnd")
        /\ ~In("SwapBuffers")
        /\ ~result
        /\ quit

(***************************************************************************)
(* Platform and device selection (oclobject.cpp).  A string is the         *)
(* sequence of its character codes.                                        *)
(***************************************************************************)
Alpha == <<65, 108, 112, 104, 97>>
Beta == <<66, 101, 116, 97>>
Al == <<65, 108>>
Gpu1 == <<71, 80, 85, 49>>

\* device names the driver may report
DeviceNames == {Alpha, Beta, Al, Gpu1}

\* selectors: "", "0", "1", "2", "Alpha", "eta", "a", "Zed"
Selectors == {<< >>, <<48>>, <<49>>, <<50>>, Alpha, <<101, 116, 97>>, <<97>>,
              <<90, 101, 100>>}

DeviceTypes == {"CL_DEVICE_TYPE_CPU", "CL_DEVICE_TYPE_GPU"}

MaxDevices == 2

\* the devices of a platform, in the order the driver enumerates them
DeviceLists ==
    UNION {[1..n -> [name : DeviceNames, type : DeviceTypes]] : n \in 0..MaxDevices}

\* strcmp: the sign of the first difference, a string that ends first is less
RECURSIVE strcmp(_, _)
strcmp(a, b) ==
    IF a = << >> /\ b = << >> THEN 0
    ELSE IF a = << >> THEN -1
    ELSE IF b = << >> THEN 1
    ELSE IF Head(a) < Head(b) THEN -1
    ELSE IF Head(a) > Head(b) THEN 1
    ELSE strcmp(Tail(a), Tail(b))

\* device_comp: the "comes before" relation handed to std::sort
device_comp(d1, d2) == strcmp(d1.name, d2.name) > 0

\* std::string::find(sub) != npos
Contains(s, sub) ==
    \E i \in 0..(Len(s) - Len(sub)) : SubSeq(s, i + 1, i + Len(sub)) = sub

\* is_number / str_to<int> of basic.hpp: a non-empty string of decimal digits
\* and its value
is_number(s) == s # << >> /\ \A i \in 1..Len(s) : s[i] \in 48..57

RECURSIVE str_to_int(_)
str_to_int(s) ==
    IF s = << >> THEN 0
    ELSE 10 * str_to_int(SubSeq(s, 1, Len(s) - 1)) + (s[Len(s)] - 48)

\* clGetDeviceIDs(platform, device_type, ..): the devices of the type
DevicesOfType(all, type) ==
    SelectSeq(all, LAMBDA d : type = "CL_DEVICE_TYPE_ALL" \/ d.type = type)

\* what std::sort(devices.begin(), devices.end(), device_comp) may leave:
\* the permutations in which no element comes before one it must follow
SortOutcomes(devices) ==
    {s \in [1..Len(devices) -> {devices[i] : i \in 1..Len(devices)}] :
        /\ \A d \in {devices[i] : i \in 1..Len(devices)} :
             Cardinality({i \in 1..Len(devices) : s[i] = d})
               = Cardinality({i \in 1..Len(devices) : devices[i] = d})
        /\ \A i \in 1..Len(s), j \in 1..Len(s) :
             i < j => ~device_comp(s[j], s[i])}

\* the listing loop of selectDevice from index i (0-based) on: the printed
\* entries and the index that ends up selected
RECURSIVE DeviceLoop(_, _, _, _, _, _)
DeviceLoop(devices, i, by_index, subname, selected, listing) ==
    IF i >= Len(devices)
    THEN [selected |-> selected, listing |-> listing]
    ELSE LET name == devices[i + 1].name
             hit == \/ by_index /\ selected = i
                    \/ /\ ~by_index
                       /\ Contains(name, subname)
                       /\ selected = Len(devices)
         IN  DeviceLoop(devices, i + 1, by_index, subname,
                        IF hit THEN i ELSE selected,
                        Append(listing, [index |-> i, name |-> name,
                                         selected |-> hit]))

\* selectDevice in which a numeric selector is also matched against the names
selectDevice_NameFallback(devices, device_name_or_index, previous) ==
    LET num_of_devices == Len(devices)
        by_index == is_number(device_name_or_index)
        l == DeviceLoop(devices, 0, FALSE, device_name_or_index,
                        num_of_devices, << >>)
    IN  IF by_index /\ l.selected >= num_of_devices
        THEN [outcome |-> "index out of range", listing |-> l.listing,
              device |-> previous, index |-> l.selected]
        ELSE IF ~by_index /\ l.selected >= num_of_devices
        THEN [outcome |-> "no device with that substring", listing |-> l.listing,
              device |-> previous, index |-> l.selected]
        ELSE [outcome |-> "selected", listing |-> l.listing,
              device |-> devices[l.selected + 1], index |-> l.selected]

\* OpenCLBasic::selectDevice on an already sorted device vector; index is the
\* final value of selected_device_index
selectDevice(devices, device_name_or_index, previous) ==
    LET num_of_devices == Len(devices)
        by_index == is_number(device_name_or_index)
        start == IF by_index THEN str_to_int(device_name_or_index)
                 ELSE num_of_devices
        l == DeviceLoop(devices, 0, by_index, device_name_or_index, start, << >>)
    IN  IF by_index /\ l.selected >= num_of_devices
        THEN [outcome |-> "index out of range", listing |-> l.listing,
              device |-> previous, index |-> l.selected]
        ELSE IF ~by_index /\ l.selected >= num_of_devices
        THEN [outcome |-> "no device with that substring", listing |-> l.listing,
              device |-> previous, index |-> l.selected]
        ELSE [outcome |-> "selected", listing |-> l.listing,
              device |-> devices[l.selected + 1], index |-> l.selected]

NoDevice == [name |-> << >>, type |-> "none"]

\* a call of selectDevice: the platform's devices, the requested type, the
\* selector, and the name query the driver fails (0: none; the query of the
\* entry printed as [fail - 1])
DeviceCalls ==
    [phase : {"call"}, platform : DeviceLists,
     device_type : DeviceTypes \cup {"CL_DEVICE_TYPE_ALL"},
     selector : Selectors, fail : 0..MaxDevices]

\* OpenCLBasic::selectDevice.  clGetDeviceIDs fails with CL_DEVICE_NOT_FOUND
\* when no device of the type exists, and SAMPLE_CHECK_ERRORS throws; it
\* throws too when a clGetDeviceInfo of the listing loop fails, after the
\* entries before that one were printed.  The member device is 0 at the call.
SelectDevice ==
    /\ sel.phase = "call"
    /\ LET devices == DevicesOfType(sel.platform, sel.device_type)
       IN  IF devices = << >>
           THEN sel' = [sel EXCEPT !.phase = "returned"] @@
                       [outcome |-> "CL_DEVICE_NOT_FOUND", listing |-> << >>,
                        device |-> NoDevice, index |-> 0]
           ELSE \E sorted \in (IF Len(devices) > 1 THEN SortOutcomes(devices)
                               ELSE {devices}) :
                  LET r == selectDevice(sorted, sel.selector, NoDevice)
                  IN  IF sel.fail \in 1..Len(devices)
                      THEN sel' = [sel EXCEPT !.phase = "returned"] @@
                                  [outcome |-> "clGetDeviceInfo failed",
                                   listing |-> SubSeq(r.listing, 1, sel.fail - 1),
                                   device |-> NoDevice, index |-> 0]
                      ELSE sel' = [sel EXCEPT !.phase = "returned"] @@ r
    /\ UNCHANGED <<interopVars, call, basic, program>>

CL2 == <<67, 76, 50>>

\* platform names the driver may report
PlatformNames == {Alpha, Gpu1, CL2}

MaxPlatforms == 2

\* the platforms in the order clGetPlatformIDs enumerates them
PlatformLists == UNION {[1..n -> PlatformNames] : n \in 0..MaxPlatforms}

\* the listing loop of selectPlatform from index i (0-based) on
RECURSIVE PlatformLoop(_, _, _, _, _)
PlatformLoop(platforms, i, subname, selected, listing) ==
    IF i >= Len(platforms)
    THEN [selected |-> selected, listing |-> listing]
    ELSE LET name == platforms[i + 1]
             hit == \/ selected = i
                    \/ /\ Contains(name, subname)
                       /\ selected = Len(platforms)
         IN  PlatformLoop(platforms, i + 1, subname,
                          IF hit THEN i ELSE selected,
                          Append(listing, [index |-> i, name |-> name,
                                           selected |-> hit]))

\* selectPlatform that prints the entry it selects only
selectPlatform_WinnerOnly(platforms, platform_name_or_index) ==
    LET num_of_platforms == Len(platforms)
        by_index == is_number(platform_name_or_index)
        start == IF by_index THEN str_to_int(platform_name_or_index)
                 ELSE num_of_platforms
        l == PlatformLoop(platforms, 0, platform_name_or_index, start, << >>)
        printed == SelectSeq(l.listing, LAMBDA e : e.selected)
    IN  IF by_index /\ l.selected >= num_of_platforms
        THEN [outcome |-> "index out of range", listing |-> printed,
              platform |-> << >>, index |-> l.selected]
        ELSE IF ~by_index /\ l.selected >= num_of_platforms
        THEN [outcome |-> "no platform with that substring",
              listing |-> printed, platform |-> << >>, index |-> l.selected]
        ELSE [outcome |-> "selected", listing |-> printed,
              platform |-> platforms[l.selected + 1], index |-> l.selected]

\* selectPlatform over the enumerated platforms; platform is the name of the
\* platform returned, index the final value of selected_platform_index
selectPlatform(platforms, platform_name_or_index) ==
    LET num_of_platforms == Len(platforms)
        by_index == is_number(platform_name_or_index)
        start == IF by_index THEN str_to_int(platform_name_or_index)
                 ELSE num_of_platforms
        l == PlatformLoop(platforms, 0, platform_name_or_index, start, << >>)
    IN  IF by_index /\ l.selected >= num_of_platforms
        THEN [outcome |-> "index out of range", listing |-> l.listing,
              platform |-> << >>, index |-> l.selected]
        ELSE IF ~by_index /\ l.selected >= num_of_platforms
        THEN [outcome |-> "no platform with that substring",
              listing |-> l.listing, platform |-> << >>, index |-> l.selected]
        ELSE [outcome |-> "selected", listing |-> l.listing,
              platform |-> platforms[l.selected + 1], index |-> l.selected]

\* a call of selectPlatform: the platforms, the selector, and the name query
\* the driver fails (0: none)
PlatformCalls ==
    [phase : {"callPlatform"}, platforms : PlatformLists,
     selector : Selectors, fail : 0..MaxPlatforms]

\* selectPlatform.  With no platform clGetPlatformIDs returns an error and
\* SAMPLE_CHECK_ERRORS throws; it throws too when a clGetPlatformInfo of the
\* listing loop fails.
SelectPlatform ==
    /\ sel.phase = "callPlatform"
    /\ LET r == selectPlatform(sel.platforms, sel.selector)
       IN  IF sel.platforms = << >>
           THEN sel' = [sel EXCEPT !.phase = "returnedPlatform"] @@
                       [outcome |-> "clGetPlatformIDs failed",
                        listing |-> << >>, platform |-> << >>, index |-> 0]
           ELSE IF sel.fail \in 1..Len(sel.platforms)
           THEN sel' = [sel EXCEPT !.phase = "returnedPlatform"] @@
                       [outcome |-> "clGetPlatformInfo failed",
                        listing |-> SubSeq(r.listing, 1, sel.fail - 1),
                        platform |-> << >>, index |-> 0]
           ELSE sel' = [sel EXCEPT !.phase = "returnedPlatform"] @@ r
    /\ UNCHANGED <<interopVars, call, basic, program>>

SelInit == sel \in DeviceCalls \cup PlatformCalls

InitSel ==
    InteropInit /\ SelInit /\ call = CallIdle /\ basic = BasicIdle
    /\ program = ProgramIdle

NextSel == SelectDevice \/ SelectPlatform

SpecSel == InitSel /\ [][NextSel]_vars

\* the listing is in ascending name order
ListingAscending(listing) ==
    \A i \in 1..Len(listing), j \in 1..Len(listing) :
        i < j => strcmp(listing[i].name, listing[j].name) <= 0

\* C10 (as claimed): the devices are listed in ascending name order and a
\* non-numeric selector selects the lowest-indexed device whose name contains
\* it; with the two GPU devices Alpha and Beta and the empty selector the
\* listing is [0] Alpha, [1] Beta, Alpha is selected and only Alpha is marked.
C10_AscendingFirstMatch ==
    sel.phase = "returned" /\ sel.outcome = "selected" =>
        /\ ListingAscending(sel.listing)
        /\ ~is_number(sel.selector) =>
             \E i \in 1..Len(sel.listing) :
                /\ sel.listing[i].selected
                /\ sel.listing[i].name = sel.device.name
                /\ \A j \in 1..Len(sel.listing) :
                     /\ sel.listing[j].selected => j = i
                     /\ Contains(sel.listing[j].name, sel.selector) => j >= i
        /\ ( /\ sel.device_type = "CL_DEVICE_TYPE_GPU"
             /\ sel.selector = << >>
             /\ Len(sel.platform) = 2
             /\ {sel.platform[1], sel.platform[2]} =
                  {[name |-> Alpha, type |-> "CL_DEVICE_TYPE_GPU"],
                   [name |-> Beta, type |-> "CL_DEVICE_TYPE_GPU"]} )
           => /\ sel.listing = << [index |-> 0, name |-> Alpha, selected |-> TRUE],
                                  [index |-> 1, name |-> Beta, selected |-> FALSE] >>
              /\ sel.device.name = Alpha

\* the outcomes in which the selection itself, not the driver, decided
SelectionOutcomes ==
    {"selected", "index out of range", "no device with that substring",
     "no platform with that substring"}

\* C11: a numeric device selector k over the N devices of the requested type
\* selects the device printed at index k when k < N, whatever the names are,
\* and raises "index out of range" when k >= N; a non-numeric selector that
\* no device name contains raises "no device with that substring"; in both
\* error cases the member device keeps the value it had at the call.
C11_DeviceIndexAndErrors ==
    (sel.phase = "returned" /\ sel.outcome \in SelectionOutcomes) =>
        LET N == Len(DevicesOfType(sel.platform, sel.device_type))
            k == str_to_int(sel.selector)
        IN  /\ Len(sel.listing) = N
            /\ \A i \in 1..N, j \in 1..N :
                 i < j => ~device_comp([name |-> sel.listing[j].name],
                                       [name |-> sel.listing[i].name])
            /\ (is_number(sel.selector) /\ k < N) =>
                 /\ sel.outcome = "selected"
                 /\ sel.index = k
                 /\ sel.listing[k + 1].selected
                 /\ sel.device.name = sel.listing[k + 1].name
                 /\ sel.device.type \in DeviceTypes
                 /\ sel.device_type \in {sel.device.type, "CL_DEVICE_TYPE_ALL"}
            /\ (is_number(sel.selector) /\ k >= N) =>
                 sel.outcome = "index out of range"
            /\ ( /\ ~is_number(sel.selector)
                 /\ \A i \in 1..N : ~Contains(sel.listing[i].name, sel.selector) )
               => sel.outcome = "no device with that substring"
            /\ sel.outcome # "selected" => sel.device = NoDevice

\* a numeric selector picked the device at its index although the name of
\* another device contains its digits
C11_Witness ==
    /\ sel.phase = "returned"
    /\ sel.outcome = "selected"
    /\ is_number(sel.selector)
    /\ \E i \in 1..Len(sel.listing) :
         /\ Contains(sel.listing[i].name, sel.selector)
         /\ ~sel.listing[i].selected

\* C12 (as claimed): a numeric platform selector k over N platforms returns
\* the platform at index k when k < N and raises "index out of range" when
\* k >= N, whatever the platform names are.
C12_PlatformIndexOnly ==
    ( /\ sel.phase = "returnedPlatform"
      /\ sel.outcome \in SelectionOutcomes
      /\ is_number(sel.selector) ) =>
        LET N == Len(sel.platforms)
            k == str_to_int(sel.selector)
        IN  /\ k < N => /\ sel.outcome = "selected"
                        /\ sel.index = k
                        /\ sel.platform = sel.platforms[k + 1]
            /\ k >= N => sel.outcome = "index out of range"

\* the candidates of the call of sel, in enumeration order for platforms; for
\* devices the type-filtered list, which the call sorts before it prints
Candidates ==
    IF sel.phase = "returnedPlatform" THEN sel.platforms
    ELSE LET ds == DevicesOfType(sel.platform, sel.device_type)
         IN  [i \in 1..Len(ds) |-> ds[i].name]

\* C13: platform and device selection print every candidate with its index,
\* also those after the match; on success exactly one printed entry is marked
\* "[Selected]" and it is the entry returned; when the selection fails (index
\* out of range, no name match) every candidate was printed.
C13_FullListingOneMark ==
    ( /\ sel.phase \in {"returned", "returnedPlatform"}
      /\ sel.outcome \in SelectionOutcomes ) =>
        LET N == Len(Candidates)
            marked == {i \in 1..Len(sel.listing) : sel.listing[i].selected}
        IN  /\ Len(sel.listing) = N
            /\ \A i \in 1..N : sel.listing[i].index = i - 1
            /\ \A n \in {Candidates[i] : i \in 1..N} :
                 Cardinality({i \in 1..N : sel.listing[i].name = n})
                   = Cardinality({i \in 1..N : Candidates[i] = n})
            /\ sel.phase = "returnedPlatform" =>
                 \A i \in 1..N : sel.listing[i].name = sel.platforms[i]
            /\ sel.outcome = "selected" =>
                 /\ marked = {sel.index + 1}
                 /\ IF sel.phase = "returned"
                    THEN sel.device.name = sel.listing[sel.index + 1].name
                    ELSE sel.platform = sel.listing[sel.index + 1].name
            /\ sel.outcome # "selected" => marked = {}

\* a platform was selected by name at index 0 and the entry after it, whose
\* name matches too, was printed without the mark
C13_Witness ==
    /\ sel.phase = "returnedPlatform"
    /\ sel.outcome = "selected"
    /\ Len(sel.listing) = 2
    /\ sel.listing[1].selected
    /\ Contains(sel.listing[2].name, sel.selector)
    /\ ~sel.listing[2].selected

(***************************************************************************)
(* parseDeviceType (oclobject.cpp).                                        *)
(***************************************************************************)
\* the characters '+' and '|' given to find_first_of
Separators == {43, 124}

\* what the chain yields for a name it does not know: not a mask
Unrecognized == {-1}

\* the chain of comparisons without the upper case and CL_DEVICE_TYPE_ names
TokenMask_LowerOnly(name) ==
    IF name \in
        {
          <<97, 108, 108>> }   \* "all"
    THEN CL_DEVICE_TYPE_ALL
    ELSE IF name \in
        {
          <<100, 101, 102, 97, 117, 108, 116>> }   \* "default"
    THEN CL_DEVICE_TYPE_DEFAULT
    ELSE IF name \in
        {
          <<99, 112, 117>> }   \* "cpu"
    THEN CL_DEVICE_TYPE_CPU
    ELSE IF name \in
        {
          <<103, 112, 117>> }   \* "gpu"
    THEN CL_DEVICE_TYPE_GPU
    ELSE IF name \in
        {
          <<97, 99, 99>>,   \* "acc"
          <<97, 99, 99, 101, 108, 101, 114, 97, 116, 111, 114>> }   \* "accelerator"
    THEN CL_DEVICE_TYPE_ACCELERATOR
    ELSE Unrecognized

\* the chain of name == "..." comparisons: the mask a name adds, if any
TokenMask(name) ==
    IF name \in
        {
          <<97, 108, 108>>,   \* "all"
          <<65, 76, 76>>,   \* "ALL"
          <<67, 76, 95, 68, 69, 86, 73, 67, 69, 95, 84, 89, 80, 69, 95, 65, 76, 76>> }   \* "CL_DEVICE_TYPE_ALL"
    THEN CL_DEVICE_TYPE_ALL
    ELSE IF name \in
        {
          <<100, 101, 102, 97, 117, 108, 116>>,   \* "default"
          <<68, 69, 70, 65, 85, 76, 84>>,   \* "DEFAULT"
          <<67, 76, 95, 68, 69, 86, 73, 67, 69, 95, 84, 89, 80, 69, 95, 68, 69, 70, 65, 85, 76, 84>> }   \* "CL_DEVICE_TYPE_DEFAULT"
    THEN CL_DEVICE_TYPE_DEFAULT
    ELSE IF name \in
        {
          <<99, 112, 117>>,   \* "cpu"
          <<67, 80, 85>>,   \* "CPU"
          <<67, 76, 95, 68, 69, 86, 73, 67, 69, 95, 84, 89, 80, 69, 95, 67, 80, 85>> }   \* "CL_DEVICE_TYPE_CPU"
    THEN CL_DEVICE_TYPE_CPU
    ELSE IF name \in
        {
          <<103, 112, 117>>,   \* "gpu"
          <<71, 80, 85>>,   \* "GPU"
          <<67, 76, 95, 68, 69, 86, 73, 67, 69, 95, 84, 89, 80, 69, 95, 71, 80, 85>> }   \* "CL_DEVICE_TYPE_GPU"
    THEN CL_DEVICE_TYPE_GPU
    ELSE IF name \in
        {
          <<97, 99, 99>>,   \* "acc"
          <<65, 67, 67>>,   \* "ACC"
          <<97, 99, 99, 101, 108, 101, 114, 97, 116, 111, 114>>,   \* "accelerator"
          <<65, 67, 67, 69, 76, 69, 82, 65, 84, 79, 82>>,   \* "ACCELERATOR"
          <<67, 76, 95, 68, 69, 86, 73, 67, 69, 95, 84, 89, 80, 69, 95, 65, 67, 67, 69, 76, 69, 82, 65, 84, 79, 82>> }   \* "CL_DEVICE_TYPE_ACCELERATOR"
    THEN CL_DEVICE_TYPE_ACCELERATOR
    ELSE Unrecognized

\* device_type_name.find_first_of("+|", pos), 0-based; -1 is string::npos
find_first_of(s, pos) ==
    IF \E i \in pos..(Len(s) - 1) : s[i + 1] \in Separators
    THEN CHOOSE i \in pos..(Len(s) - 1) :
            /\ s[i + 1] \in Separators
            /\ \A j \in pos..(i - 1) : s[j + 1] \notin Separators
    ELSE -1

\* one pass of the for loop at pos with the mask collected so far, and the
\* passes after it
RECURSIVE ParseLoop(_, _, _)
ParseLoop(device_type_name, pos, device_type) ==
    LET next == find_first_of(device_type_name, pos)
        name == IF next # -1 THEN SubSeq(device_type_name, pos + 1, next)
                ELSE SubSeq(device_type_name, pos + 1, Len(device_type_name))
        m == TokenMask(name)
    IN  IF m = Unrecognized
        THEN [outcome |-> "Cannot recognize", mask |-> {}]
        ELSE IF next = -1
        THEN [outcome |-> "mask", mask |-> device_type \cup m]
        ELSE ParseLoop(device_type_name, next + 1, device_type \cup m)

parseDeviceType(device_type_name) == ParseLoop(device_type_name, 0, {})

\* the pieces a device type name is put together from: the names of the
\* chain, and "", "bogus", "Gpu", "CL_DEVICE_TYPE_ACC"
ParsePieces ==
    { <<97, 108, 108>>,
      <<65, 76, 76>>,
      <<67, 76, 95, 68, 69, 86, 73, 67, 69, 95, 84, 89, 80, 69, 95, 65, 76, 76>>,
      <<100, 101, 102, 97, 117, 108, 116>>,
      <<68, 69, 70, 65, 85, 76, 84>>,
      <<67, 76, 95, 68, 69, 86, 73, 67, 69, 95, 84, 89, 80, 69, 95, 68, 69, 70, 65, 85, 76, 84>>,
      <<99, 112, 117>>,
      <<67, 80, 85>>,
      <<67, 76, 95, 68, 69, 86, 73, 67, 69, 95, 84, 89, 80, 69, 95, 67, 80, 85>>,
      <<103, 112, 117>>,
      <<71, 80, 85>>,
      <<67, 76, 95, 68, 69, 86, 73, 67, 69, 95, 84, 89, 80, 69, 95, 71, 80, 85>>,
      <<97, 99, 99>>,
      <<65, 67, 67>>,
      <<97, 99, 99, 101, 108, 101, 114, 97, 116, 111, 114>>,
      <<65, 67, 67, 69, 76, 69, 82, 65, 84, 79, 82>>,
      <<67, 76, 95, 68, 69, 86, 73, 67, 69, 95, 84, 89, 80, 69, 95, 65, 67, 67, 69, 76, 69, 82, 65, 84, 79, 82>>,
      <<>>,
      <<98, 111, 103, 117, 115>>,
      <<71, 112, 117>>,
      <<67, 76, 95, 68, 69, 86, 73, 67, 69, 95, 84, 89, 80, 69, 95, 65, 67, 67>> }

MaxTokens == 2

\* pieces[1] seps[1] pieces[2] ... as one string
RECURSIVE Join(_, _)
Join(pieces, seps) ==
    IF Len(pieces) = 1 THEN pieces[1]
    ELSE pieces[1] \o <<seps[1]>> \o Join(Tail(pieces), Tail(seps))

\* a call of parseDeviceType on a name of up to MaxTokens pieces
ParseInit ==
    \E n \in 1..MaxTokens :
        \E p \in [1..n -> ParsePieces], q \in [1..(n - 1) -> Separators] :
            call = [phase |-> "call", fn |-> "parseDeviceType", pieces |-> p,
                    seps |-> q, text |-> Join(p, q)]

ParseDeviceType ==
    /\ call.phase = "call"
    /\ call.fn = "parseDeviceType"
    /\ call' = [call EXCEPT !.phase = "returned"] @@ parseDeviceType(call.text)
    /\ UNCHANGED <<interopVars, sel, basic, program>>

InitParse ==
    InteropInit /\ sel = SelIdle /\ basic = BasicIdle /\ program = ProgramIdle
    /\ ParseInit

NextParse == ParseDeviceType

SpecParse == InitParse /\ [][NextParse]_vars

\* the upper case form of a string of letters
Upper(s) == [i \in 1..Len(s) |-> IF s[i] \in 97..122 THEN s[i] - 32 ELSE s[i]]

\* "CL_DEVICE_TYPE_" followed by a name
CLForm(s) ==
    <<67, 76, 95, 68, 69, 86, 73, 67, 69, 95, 84, 89, 80, 69, 95>> \o s

\* the tokens of the device type grammar and the mask of each: the words all,
\* default, cpu, gpu, acc, accelerator, their upper case forms, and the
\* CL_DEVICE_TYPE_* name of each mask
TokenGrammar ==
    LET word(w, long, m) ==
            {[token |-> t, mask |-> m] : t \in {w, Upper(w), long, Upper(long),
                                                CLForm(Upper(long))}}
    IN  word(<<97, 108, 108>>, <<97, 108, 108>>, CL_DEVICE_TYPE_ALL)
        \cup word(<<100, 101, 102, 97, 117, 108, 116>>,
                  <<100, 101, 102, 97, 117, 108, 116>>, CL_DEVICE_TYPE_DEFAULT)
        \cup word(<<99, 112, 117>>, <<99, 112, 117>>, CL_DEVICE_TYPE_CPU)
        \cup word(<<103, 112, 117>>, <<103, 112, 117>>, CL_DEVICE_TYPE_GPU)
        \cup word(<<97, 99, 99>>,
                  <<97, 99, 99, 101, 108, 101, 114, 97, 116, 111, 114>>,
                  CL_DEVICE_TYPE_ACCELERATOR)

\* C14: parseDeviceType splits its input at every '+' and '|'; when every
\* piece is a token of the grammar it returns the union of their masks, and
\* when some piece is not (the empty piece of "" or of a trailing separator
\* included) it raises an error; "cpu|gpu" yields CPU|GPU, "GPU" and "gpu"
\* yield the mask of GPU.
C14_TokenUnionOrError ==
    (call.phase = "returned" /\ call.fn = "parseDeviceType") =>
        LET known(p) == \E g \in TokenGrammar : g.token = p
            maskOf(p) == (CHOOSE g \in TokenGrammar : g.token = p).mask
            n == Len(call.pieces)
        IN  /\ (\A i \in 1..n : known(call.pieces[i])) =>
                 /\ call.outcome = "mask"
                 /\ call.mask = UNION {maskOf(call.pieces[i]) : i \in 1..n}
            /\ (\E i \in 1..n : ~known(call.pieces[i])) =>
                 call.outcome = "Cannot recognize"
            /\ call.text = <<99, 112, 117, 124, 103, 112, 117>> =>
                 call.mask = CL_DEVICE_TYPE_CPU \cup CL_DEVICE_TYPE_GPU
            /\ call.text \in {<<71, 80, 85>>, <<103, 112, 117>>} =>
                 /\ call.outcome = "mask"
                 /\ call.mask = CL_DEVICE_TYPE_GPU
            /\ (call.text = << >> \/ call.text[Len(call.text)] \in Separators) =>
                 call.outcome = "Cannot recognize"

\* "CPU+CL_DEVICE_TYPE_ACCELERATOR" was parsed to the union of the two masks
C14_Witness ==
    /\ call.phase = "returned"
    /\ call.fn = "parseDeviceType"
    /\ call.pieces = << <<67, 80, 85>>,
                        CLForm(<<65, 67, 67, 69, 76, 69, 82, 65, 84, 79, 82>>) >>
    /\ call.seps = <<43>>
    /\ call.outcome = "mask"
    /\ call.mask = {1, 3}

(***************************************************************************)
(* InitCL on its own: the devices of the GL context, the requested type    *)
(* and the call the driver fails.                                          *)
(***************************************************************************)
InitCLCalls ==
    [phase : {"call"}, fn : {"InitCL"}, devices : GLDeviceLists,
     device_type : RequestedTypes, failAt : FailPoints(InitCLProgram)]

InitCLInit == call \in InitCLCalls

\* g_device is 0 or the position in devices of the device it names
InitCL ==
    /\ call.phase = "call"
    /\ call.fn = "InitCL"
    /\ LET f == DeviceSearch(call.devices, 1, call.device_type, 0)
           stop == StopAt(InitCLProgram, call.failAt, f.g_device # 0)
           r == Exec(InitCLProgram, 1, stop, FALSE)
           searched == Effective(InitCLProgram, r, call.failAt, "findDevice")
       IN  call' = [call EXCEPT !.phase = "returned"] @@
                   [ok |-> r.ok,
                    g_device |-> IF searched THEN f.g_device ELSE 0,
                    g_bImplicitSync |-> searched /\ f.g_bImplicitSync,
                    log |-> SubSeq(Names(InitCLProgram), 1, r.last),
                    message |->
                      IF r.ok THEN "none"
                      ELSE IF stop # call.failAt
                      THEN "Cannot find OpenCL device of the desired type"
                      ELSE "call failed"]
    /\ UNCHANGED <<interopVars, sel, basic, program>>

InitInitCL ==
    InteropInit /\ sel = SelIdle /\ basic = BasicIdle /\ program = ProgramIdle
    /\ InitCLInit

NextInitCL == InitCL

SpecInitCL == InitInitCL /\ [][NextInitCL]_vars

\* the device search was reached and no call of it was failed by the driver
SearchDone ==
    /\ call.phase = "returned"
    /\ call.fn = "InitCL"
    /\ \E i \in 1..Len(call.log) : call.log[i] = "findDevice"
    /\ call.failAt # Pos(Names(InitCLProgram), "findDevice")

\* the calls of InitCL that create a compute object
InitCLCreates ==
    {"clCreateContext", "clCreateCommandQueue", "clCreateFromGLTexture",
     "createAndBuildProgram", "clCreateKernel_buffer", "clCreateKernel_image"}

\* C15 (as claimed): InitCL goes on past the device search only with a device
\* that advertises cl_khr_gl_sharing; when the GL context has no device of the
\* requested type that advertises it, InitCL fails with "Cannot find OpenCL
\* device" and creates no context, queue, shared object or program.
C15_NoDeviceWithoutSharing ==
    SearchDone =>
        LET sharing == {i \in 1..Len(call.devices) :
                          /\ call.devices[i].type \subseteq call.device_type
                          /\ call.devices[i].gl_sharing}
            created == {call.log[i] : i \in 1..Len(call.log)} \cap InitCLCreates
        IN  /\ created # {} => /\ call.g_device # 0
                               /\ call.devices[call.g_device].gl_sharing
            /\ sharing = {} =>
                 /\ ~call.ok
                 /\ call.message = "Cannot find OpenCL device of the desired type"
                 /\ created = {}

\* C16 (as claimed): a device of the GL context is eligible exactly when its
\* type belongs to the requested mask, unions included: the device InitCL
\* goes on with is of a type in the mask, and the search finds a device
\* whenever one of a type in the mask advertises cl_khr_gl_sharing.
C16_EligibleByMask ==
    SearchDone =>
        LET eligible == {i \in 1..Len(call.devices) :
                           call.devices[i].type \subseteq call.device_type}
        IN  /\ call.g_device # 0 => call.g_device \in eligible
            /\ (\E i \in eligible : call.devices[i].gl_sharing) =>
                 /\ call.g_device \in eligible
                 /\ call.message # "Cannot find OpenCL device of the desired type"

(***************************************************************************)
(* OpenCLBasic (oclobject.cpp): the object's four handles, 0 when unset,   *)
(* its constructor, createContext, createQueue and its destructor.         *)
(***************************************************************************)
CL_CONTEXT_PLATFORM == 4228
CL_GL_CONTEXT_KHR == 8200
CL_WGL_HDC_KHR == 8203

\* names and values of the additional properties a caller may pass
PropKeys == {CL_GL_CONTEXT_KHR, CL_WGL_HDC_KHR}
PropValues == {0, 5}

MaxPropPairs == 2

\* additional_context_props: a null pointer, or an array of name, value
\* pairs closed by a 0
RECURSIVE Flatten(_)
Flatten(pairs) ==
    IF pairs = << >> THEN << >>
    ELSE <<pairs[1][1], pairs[1][2]>> \o Flatten(Tail(pairs))

PropArrays ==
    {[null |-> TRUE, entries |-> << >>]}
    \cup UNION {{[null |-> FALSE, entries |-> Flatten(p) \o <<0>>] :
                   p \in [1..n -> PropKeys \X PropValues]} :
                n \in 0..MaxPropPairs}

\* while(additional_context_props[n++]); n--;  the entries before the first
\* entry that is 0
CountProps(entries) ==
    (CHOOSE i \in 1..Len(entries) :
        entries[i] = 0 /\ \A j \in 1..(i - 1) : entries[j] # 0) - 1

\* the array createContext hands to clCreateContext
ContextProps(platform, props) ==
    LET number_of_additional_props ==
            IF props.null THEN 0 ELSE CountProps(props.entries)
    IN  <<CL_CONTEXT_PLATFORM, platform>>
        \o SubSeq(props.entries, 1, number_of_additional_props)
        \o <<0>>

\* createContext without the test of the device
createContext_NoDeviceCheck(obj, props, fail) ==
    IF obj.platform = 0
    THEN [obj |-> obj, error |-> "Platform is not selected",
          calls |-> << >>, context_props |-> << >>]
    ELSE [obj |-> [obj EXCEPT !.context = IF fail THEN 0 ELSE 1],
          error |-> IF fail THEN "clCreateContext failed" ELSE "none",
          calls |-> <<"clCreateContext">>,
          context_props |-> ContextProps(obj.platform, props)]

\* OpenCLBasic::createContext on the object obj; fail: clCreateContext
\* returns an error (and a null context)
createContext(obj, props, fail) ==
    IF obj.platform = 0
    THEN [obj |-> obj, error |-> "Platform is not selected",
          calls |-> << >>, context_props |-> << >>]
    ELSE IF obj.device = 0
    THEN [obj |-> obj, error |-> "Device is not selected",
          calls |-> << >>, context_props |-> << >>]
    ELSE [obj |-> [obj EXCEPT !.context = IF fail THEN 0 ELSE 1],
          error |-> IF fail THEN "clCreateContext failed" ELSE "none",
          calls |-> <<"clCreateContext">>,
          context_props |-> ContextProps(obj.platform, props)]

\* OpenCLBasic::createQueue
createQueue(obj, fail) ==
    IF obj.device = 0
    THEN [obj |-> obj, error |-> "Device is not selected", calls |-> << >>]
    ELSE [obj |-> [obj EXCEPT !.queue = IF fail THEN 0 ELSE 1],
          error |-> IF fail THEN "clCreateCommandQueue failed" ELSE "none",
          calls |-> <<"clCreateCommandQueue">>]

\* the member selectPlatform of the class stores what the function
\* selectPlatform returns; throws: the selection raised an error
OpenCLBasic_selectPlatform(obj, throws) ==
    IF throws THEN [obj |-> obj, error |-> "platform selection failed"]
    ELSE [obj |-> [obj EXCEPT !.platform = 1], error |-> "none"]

\* OpenCLBasic::selectDevice as far as the object goes (SpecSel has the
\* selection itself)
OpenCLBasic_selectDevice(obj, throws) ==
    IF obj.platform = 0
    THEN [obj |-> obj, error |-> "Platform is not selected"]
    ELSE IF throws THEN [obj |-> obj, error |-> "device selection failed"]
    ELSE [obj |-> [obj EXCEPT !.device = 1], error |-> "none"]

\* the member initializers of the constructor
NewObject == [platform |-> 0, device |-> 0, context |-> 0, queue |-> 0]

\* OpenCLBasic::OpenCLBasic; throwAt: the step in which the driver or the
\* selection raises an error (0: none)
Constructor(props, throwAt) ==
    LET p == OpenCLBasic_selectPlatform(NewObject, throwAt = 1)
        d == OpenCLBasic_selectDevice(p.obj, throwAt = 2)
        c == createContext(d.obj, props, throwAt = 3)
        q == createQueue(c.obj, throwAt = 4)
    IN  IF p.error # "none"
        THEN [obj |-> p.obj, error |-> p.error, log |-> <<"selectPlatform">>,
              calls |-> << >>, context_props |-> << >>]
        ELSE IF d.error # "none"
        THEN [obj |-> d.obj, error |-> d.error,
              log |-> <<"selectPlatform", "selectDevice">>,
              calls |-> << >>, context_props |-> << >>]
        ELSE IF c.error # "none"
        THEN [obj |-> c.obj, error |-> c.error,
              log |-> <<"selectPlatform", "selectDevice", "createContext">>,
              calls |-> c.calls, context_props |-> c.context_props]
        ELSE [obj |-> q.obj, error |-> q.error,
              log |-> <<"selectPlatform", "selectDevice", "createContext",
                        "createQueue">>,
              calls |-> c.calls \o q.calls, context_props |-> c.context_props]

\* destructorException of basic.hpp: the error caught in the destructor is
\* reported and not thrown again
destructorException == [propagated |-> FALSE]

\* a destructor that releases the context before the queue
Teardown_ContextFirst(obj, failQueue, failContext) ==
    LET thrownC == obj.context # 0 /\ failContext
        thrownQ == ~thrownC /\ obj.queue # 0 /\ failQueue
    IN  [calls |-> (IF obj.context # 0 THEN <<"clReleaseContext">> ELSE << >>)
                   \o (IF ~thrownC /\ obj.queue # 0
                       THEN <<"clReleaseCommandQueue">> ELSE << >>),
         caught |-> thrownQ \/ thrownC,
         propagated |-> (thrownQ \/ thrownC) /\ destructorException.propagated]

\* OpenCLBasic::~OpenCLBasic: the release calls made; failQueue, failContext:
\* the release returns an error, SAMPLE_CHECK_ERRORS throws and the rest of
\* the try block is skipped
Teardown(obj, failQueue, failContext) ==
    LET thrownQ == obj.queue # 0 /\ failQueue
        thrownC == ~thrownQ /\ obj.context # 0 /\ failContext
    IN  [calls |-> (IF obj.queue # 0 THEN <<"clReleaseCommandQueue">> ELSE << >>)
                   \o (IF ~thrownQ /\ obj.context # 0
                       THEN <<"clReleaseContext">> ELSE << >>),
         caught |-> thrownQ \/ thrownC,
         propagated |-> (thrownQ \/ thrownC) /\ destructorException.propagated]

\* the values the four handles may have
ObjectStates ==
    [platform : {0, 1}, device : {0, 1}, context : {0, 1}, queue : {0, 1}]

\* a construction; a call of createContext or of createQueue on an object
\* that has no context or no queue yet; an object about to be destroyed
BasicCalls ==
    [phase : {"new"}, props : PropArrays, throwAt : 0..4]
    \cup [phase : {"createContext"},
          obj : {o \in ObjectStates : o.context = 0 /\ o.queue = 0},
          props : PropArrays, fail : BOOLEAN]
    \cup [phase : {"createQueue"}, obj : {o \in ObjectStates : o.queue = 0},
          fail : BOOLEAN]
    \cup [phase : {"object"}, obj : ObjectStates]

BasicInit == basic \in BasicCalls

\* OpenCLBasic::OpenCLBasic: the object exists when no step threw
Construct ==
    /\ basic.phase = "new"
    /\ LET r == Constructor(basic.props, basic.throwAt)
       IN  basic' = [basic EXCEPT !.phase = IF r.error = "none" THEN "object"
                                            ELSE "threw"] @@ r
    /\ UNCHANGED <<interopVars, sel, call, program>>

CreateContext ==
    /\ basic.phase = "createContext"
    /\ LET r == createContext(basic.obj, basic.props, basic.fail)
       IN  basic' = [phase |-> "returned", method |-> "createContext",
                     before |-> basic.obj, props |-> basic.props,
                     fail |-> basic.fail] @@ r
    /\ UNCHANGED <<interopVars, sel, call, program>>

CreateQueue ==
    /\ basic.phase = "createQueue"
    /\ LET r == createQueue(basic.obj, basic.fail)
       IN  basic' = [phase |-> "returned", method |-> "createQueue",
                     before |-> basic.obj, fail |-> basic.fail] @@ r
    /\ UNCHANGED <<interopVars, sel, call, program>>

\* OpenCLBasic::~OpenCLBasic
Destroy ==
    /\ basic.phase = "object"
    /\ \E failQueue \in BOOLEAN, failContext \in BOOLEAN :
         basic' = [phase |-> "destroyed", obj |-> basic.obj,
                   failQueue |-> failQueue, failContext |-> failContext]
                  @@ Teardown(basic.obj, failQueue, failContext)
    /\ UNCHANGED <<interopVars, sel, call, program>>

InitBasic ==
    InteropInit /\ sel = SelIdle /\ call = CallIdle /\ program = ProgramIdle
    /\ BasicInit

NextBasic == Construct \/ CreateContext \/ CreateQueue \/ Destroy

SpecBasic == InitBasic /\ [][NextBasic]_vars

\* createContext has called clCreateContext
ContextRequested ==
    /\ \/ basic.phase \in {"object", "threw"} /\ "log" \in DOMAIN basic
       \/ basic.phase = "returned" /\ basic.method = "createContext"
    /\ \E i \in 1..Len(basic.calls) : basic.calls[i] = "clCreateContext"

\* the platform handle createContext was called with
PlatformAtCall ==
    IF basic.phase = "returned" THEN basic.before.platform ELSE basic.obj.platform

\* C17 (as claimed): the property array handed to clCreateContext is the
\* platform name, the platform handle, every entry of the caller's array
\* before its closing 0, in order, and one closing 0; its length is 2 + the
\* number of those entries + 1, for a null pointer, for no pair and for pairs
\* whose value is 0.
C17_PropertyArray ==
    ContextRequested =>
        LET additional == IF basic.props.null THEN << >>
                          ELSE SubSeq(basic.props.entries, 1,
                                      Len(basic.props.entries) - 1)
        IN  /\ basic.context_props =
                 <<CL_CONTEXT_PLATFORM, PlatformAtCall>> \o additional \o <<0>>
            /\ Len(basic.context_props) = 2 + Len(additional) + 1

\* the order of the construction steps
ConstructionSteps ==
    <<"selectPlatform", "selectDevice", "createContext", "createQueue">>

\* C18: createContext raises an error and requests no context when the
\* platform or the device is unset, createQueue raises an error and requests
\* no queue when the device is unset; the constructor runs platform selection,
\* device selection, createContext, createQueue in this order and stops at
\* the first that raises.
C18_UnsetGuardsAndOrder ==
    /\ (basic.phase = "returned" /\ basic.method = "createContext"
          /\ (basic.before.platform = 0 \/ basic.before.device = 0)) =>
         /\ basic.error # "none"
         /\ basic.calls = << >>
         /\ basic.obj = basic.before
    /\ (basic.phase = "returned" /\ basic.method = "createQueue"
          /\ basic.before.device = 0) =>
         /\ basic.error # "none"
         /\ basic.calls = << >>
         /\ basic.obj = basic.before
    /\ (basic.phase \in {"object", "threw"} /\ "log" \in DOMAIN basic) =>
         /\ basic.log = SubSeq(ConstructionSteps, 1, Len(basic.log))
         /\ basic.phase = "object" <=> basic.error = "none"
         /\ basic.error = "none" => basic.log = ConstructionSteps
         /\ basic.throwAt # 0 =>
              /\ basic.error # "none"
              /\ basic.log = SubSeq(ConstructionSteps, 1, basic.throwAt)
         /\ (\E i \in 1..Len(basic.calls) :
                basic.calls[i] = "clCreateCommandQueue") =>
              /\ basic.calls = <<"clCreateContext", "clCreateCommandQueue">>
              /\ basic.obj.context # 0

\* createContext was called on an object with a platform and no device and
\* raised "Device is not selected"
C18_Witness ==
    /\ basic.phase = "returned"
    /\ basic.method = "createContext"
    /\ basic.before.platform # 0
    /\ basic.before.device = 0
    /\ basic.error = "Device is not selected"

\* C19: the destructor releases the queue first and the context second, each
\* only if it is set and each at most once, and no error of a release call
\* leaves the destructor.
C19_TeardownOrder ==
    basic.phase = "destroyed" =>
        /\ basic.calls \in {<< >>, <<"clReleaseCommandQueue">>,
                            <<"clReleaseContext">>,
                            <<"clReleaseCommandQueue", "clReleaseContext">>}
        /\ (\E i \in 1..Len(basic.calls) :
               basic.calls[i] = "clReleaseCommandQueue") => basic.obj.queue # 0
        /\ (\E i \in 1..Len(basic.calls) :
               basic.calls[i] = "clReleaseContext") => basic.obj.context # 0
        /\ (~basic.failQueue /\ basic.obj.context # 0) =>
               basic.calls[Len(basic.calls)] = "clReleaseContext"
        /\ basic.obj.queue # 0 => basic.calls[1] = "clReleaseCommandQueue"
        /\ ~basic.propagated

\* an object with a queue and a context was destroyed, the release of the
\* context failed and the error was caught
C19_Witness ==
    /\ basic.phase = "destroyed"
    /\ basic.calls = <<"clReleaseCommandQueue", "clReleaseContext">>
    /\ basic.failContext
    /\ basic.caught
    /\ ~basic.propagated

\* how often the last handler called n
Calls(n) == Cardinality({i \in 1..Len(log) : log[i] = n})

\* the release calls the exit command owes: one per compute object of the
\* session
ExitReleases ==
    {"clReleaseKernel_buffer", "clReleaseKernel_image", "clReleaseProgram",
     "clReleaseCommandQueue", "clReleaseContext"}
    \cup (IF g_mem # "null" THEN {"clReleaseMemObject"} ELSE {})

\* C20 (as claimed): when every call of the exit command succeeds, the shared
\* object (if g_mem is set), the two kernels, the program, the queue and the
\* context are released exactly once each, the context last.
C20_ExitReleasesAll ==
    (event = "IDM_EXIT" /\ failed = "none") =>
        /\ \A n \in ExitReleases : Calls(n) = 1
        /\ g_mem = "null" => Calls("clReleaseMemObject") = 0
        /\ \A n \in ExitReleases \ {"clReleaseContext"} :
             Pos(log, n) < Pos(log, "clReleaseContext")

(***************************************************************************)
(* Program sources (oclobject.cpp): readFile, readProgramFile,             *)
(* createAndBuildProgram, OpenCLProgram and OpenCLProgramMultipleKernels.  *)
(* A file is a record: whether it can be opened and its bytes.  Texts      *)
(* written to cerr or carried by an Error are strings; a build log is a    *)
(* sequence of lines.                                                      *)
(***************************************************************************)

\* the bytes a source may hold; 0 is the byte readProgramFile appends
FileBytes == {0, 107}

MaxFileLen == 2

Contents == UNION { [1..n -> FileBytes] : n \in 0..MaxFileLen }

NoFile == [exists |-> FALSE, bytes |-> << >>]

Files == {NoFile} \cup [exists : {TRUE}, bytes : Contents]

FileNames == {"k.cl"}

\* exe_dir(): the directory of the executable, with its closing separator
exe_dir == "/opt/bin/"

inquotes(s) == "\"" \o s \o "\""

Event(op, arg) == [op |-> op, arg |-> arg]

WarningText(file_name) ==
    "[ WARNING ] Unable to load OpenCL source code file " \o inquotes(file_name)
    \o " at the default location.\nTrying to open the file from the directory with executable..."

\* readFile: the trace holds the opens and the cerr output in program order.
\* atDefault / atExeDir are the files found at file_name and at
\* exe_dir() + file_name; tellg is FALSE when file.tellg() returns -1.  The
\* result of file.read is not tested by the code; reading a file of length 0
\* stores nothing.
readFile_SilentRetry(file_name, atDefault, atExeDir, tellg) ==
    LET second == exe_dir \o file_name
        first  == << Event("open", file_name) >>
        retry  == first \o << Event("open", second) >>
        file   == IF atDefault.exists THEN atDefault ELSE atExeDir
        trace  == IF atDefault.exists THEN first
                  ELSE IF atExeDir.exists
                       THEN retry \o << Event("cerr", " OK\n"),
                                        Event("cerr", "Full file path is " \o inquotes(second) \o "\n") >>
                       ELSE retry \o << Event("cerr", " FAILED\n") >>
    IN  IF ~file.exists
        THEN [ok |-> FALSE, trace |-> trace, data |-> << >>,
              error |-> "Cannot open file " \o inquotes(second)]
        ELSE IF ~tellg
        THEN [ok |-> FALSE, trace |-> trace, data |-> << >>,
              error |-> "Cannot determine the length of file " \o inquotes(file_name)]
        ELSE [ok |-> TRUE, trace |-> trace, data |-> file.bytes, error |-> ""]

readFile(file_name, atDefault, atExeDir, tellg) ==
    LET second == exe_dir \o file_name
        first  == << Event("open", file_name) >>
        retry  == first \o << Event("cerr", WarningText(file_name)),
                              Event("open", second) >>
        file   == IF atDefault.exists THEN atDefault ELSE atExeDir
        trace  == IF atDefault.exists THEN first
                  ELSE IF atExeDir.exists
                       THEN retry \o << Event("cerr", " OK\n"),
                                        Event("cerr", "Full file path is " \o inquotes(second) \o "\n") >>
                       ELSE retry \o << Event("cerr", " FAILED\n") >>
    IN  IF ~file.exists
        THEN [ok |-> FALSE, trace |-> trace, data |-> << >>,
              error |-> "Cannot open file " \o inquotes(second)]
        ELSE IF ~tellg
        THEN [ok |-> FALSE, trace |-> trace, data |-> << >>,
              error |-> "Cannot determine the length of file " \o inquotes(file_name)]
        ELSE [ok |-> TRUE, trace |-> trace, data |-> file.bytes, error |-> ""]

\* readProgramFile: readFile, then program_text_prepared.push_back(0); an
\* exception of readFile leaves before the push_back
readProgramFile_NoTerminator(file_name, atDefault, atExeDir, tellg) ==
    readFile(file_name, atDefault, atExeDir, tellg)

readProgramFile(file_name, atDefault, atExeDir, tellg) ==
    LET r == readFile(file_name, atDefault, atExeDir, tellg)
    IN  IF r.ok THEN [r EXCEPT !.data = Append(r.data, 0)] ELSE r

\* cl_int results of the driver
CL_SUCCESS == "CL_SUCCESS"

CL_BUILD_PROGRAM_FAILURE == "CL_BUILD_PROGRAM_FAILURE"

CL_INVALID_BUILD_OPTIONS == "CL_INVALID_BUILD_OPTIONS"

CL_OUT_OF_RESOURCES == "CL_OUT_OF_RESOURCES"

\* SAMPLE_CHECK_ERRORS(err): throws when err is not CL_SUCCESS
SAMPLE_CHECK_ERRORS(err) == err # CL_SUCCESS

\* the Error SAMPLE_CHECK_ERRORS throws, named by the code it carries
DriverError(err) == << "OpenCL error " \o err >>

\* the lines a build log is made of
LogLines == {"k.cl:1: error: x", "k.cl:2: warning: y"}

MaxLogLines == 1

BuildLogs == UNION { [1..n -> LogLines] : n \in 0..MaxLogLines }

\* "Error happened during the build of OpenCL program.\nBuild log:\n"
BuildErrorText ==
    << "Error happened during the build of OpenCL program.", "Build log:" >>

Thrown(calls, source, error) ==
    [ok |-> FALSE, returned |-> FALSE, calls |-> calls, source |-> source,
     error |-> error]

\* createAndBuildProgram.  create and build are the results of
\* clCreateProgramWithSource and clBuildProgram, logs[i + 1] is the build log
\* the driver holds for devices[i], failQuery names the clGetProgramBuildInfo
\* call that fails (1 the length query, 2 the text query, 0 none).  Every path
\* through the body of the loop over the devices ends in a throw, so the body
\* runs for i = 0 only.  source is the buffer handed to the compiler.
createAndBuildProgram_UncheckedQuery(text, num_of_devices, logs, create, build, failQuery) ==
    LET c1 == << Event("clCreateProgramWithSource", 0) >>
        c2 == c1 \o << Event("clBuildProgram", num_of_devices) >>
        c3 == c2 \o << Event("clGetProgramBuildInfo_length", 0) >>
        c4 == c3 \o << Event("clGetProgramBuildInfo_log", 0) >>
    IN  IF SAMPLE_CHECK_ERRORS(create) THEN Thrown(c1, text, DriverError(create))
        ELSE IF build = CL_BUILD_PROGRAM_FAILURE /\ 0 < num_of_devices
        THEN IF failQuery # 0
             THEN [ok |-> TRUE, returned |-> TRUE, calls |-> c4, source |-> text,
                   error |-> << >>]
             ELSE Thrown(c4, text, BuildErrorText \o logs[1])
        ELSE IF SAMPLE_CHECK_ERRORS(build) THEN Thrown(c2, text, DriverError(build))
        ELSE [ok |-> TRUE, returned |-> TRUE, calls |-> c2, source |-> text,
              error |-> << >>]

createAndBuildProgram(text, num_of_devices, logs, create, build, failQuery) ==
    LET c1 == << Event("clCreateProgramWithSource", 0) >>
        c2 == c1 \o << Event("clBuildProgram", num_of_devices) >>
        c3 == c2 \o << Event("clGetProgramBuildInfo_length", 0) >>
        c4 == c3 \o << Event("clGetProgramBuildInfo_log", 0) >>
    IN  IF SAMPLE_CHECK_ERRORS(create) THEN Thrown(c1, text, DriverError(create))
        ELSE IF build = CL_BUILD_PROGRAM_FAILURE /\ 0 < num_of_devices
        THEN IF failQuery = 1 THEN Thrown(c3, text, DriverError(CL_OUT_OF_RESOURCES))
             ELSE IF failQuery = 2 THEN Thrown(c4, text, DriverError(CL_OUT_OF_RESOURCES))
             ELSE Thrown(c4, text, BuildErrorText \o logs[1])
        ELSE IF SAMPLE_CHECK_ERRORS(build) THEN Thrown(c2, text, DriverError(build))
        ELSE [ok |-> TRUE, returned |-> TRUE, calls |-> c2, source |-> text,
              error |-> << >>]

\* the inline branch of the constructor: resize(length + 1), which fills with
\* zero bytes, then copy of the text to the front
PrepareText(program_text) ==
    [i \in 1..(Len(program_text) + 1) |->
        IF i <= Len(program_text) THEN program_text[i] ELSE 0]

NotConstructed(error, trace, calls, prepared) ==
    [ok |-> FALSE, error |-> error, trace |-> trace, calls |-> calls,
     prepared |-> prepared, program |-> 0]

\* OpenCLProgram::OpenCLProgram: the two argument tests, the preparation of
\* the text and createAndBuildProgram for the one device of oclobjects.  The
\* member program is 0 unless the build returned.
OpenCLProgram_FileWins(program_file_name, program_text, atDefault, atExeDir, tellg, build_log, create, build, failQuery) ==
    LET file == readProgramFile(program_file_name, atDefault, atExeDir, tellg)
        text == IF program_file_name # "" THEN file.data
                ELSE PrepareText(program_text)
        b    == createAndBuildProgram(text, 1, << build_log >>, create, build, failQuery)
    IN  IF program_file_name = "" /\ program_text = << >>
        THEN NotConstructed(<< "Neither of program file name or program text are specified. One of them is required." >>,
                            << >>, << >>, << >>)
        ELSE IF program_file_name # "" /\ ~file.ok
        THEN NotConstructed(<< file.error >>, file.trace, << >>, << >>)
        ELSE IF ~b.ok
        THEN NotConstructed(b.error,
                            IF program_file_name # "" THEN file.trace ELSE << >>,
                            b.calls, text)
        ELSE [ok |-> TRUE, error |-> << >>,
              trace |-> IF program_file_name # "" THEN file.trace ELSE << >>,
              calls |-> b.calls, prepared |-> text, program |-> 1]

OpenCLProgram(program_file_name, program_text, atDefault, atExeDir, tellg, build_log, create, build, failQuery) ==
    LET file == readProgramFile(program_file_name, atDefault, atExeDir, tellg)
        text == IF program_file_name # "" THEN file.data
                ELSE PrepareText(program_text)
        b    == createAndBuildProgram(text, 1, << build_log >>, create, build, failQuery)
    IN  IF program_file_name # "" /\ program_text # << >>
        THEN NotConstructed(<< "Both program file name and program text are specified. Should be one of them only." >>,
                            << >>, << >>, << >>)
        ELSE IF program_file_name = "" /\ program_text = << >>
        THEN NotConstructed(<< "Neither of program file name or program text are specified. One of them is required." >>,
                            << >>, << >>, << >>)
        ELSE IF program_file_name # "" /\ ~file.ok
        THEN NotConstructed(<< file.error >>, file.trace, << >>, << >>)
        ELSE IF ~b.ok
        THEN NotConstructed(b.error,
                            IF program_file_name # "" THEN file.trace ELSE << >>,
                            b.calls, text)
        ELSE [ok |-> TRUE, error |-> << >>,
              trace |-> IF program_file_name # "" THEN file.trace ELSE << >>,
              calls |-> b.calls, prepared |-> text, program |-> 1]

\* the names kernels are looked up by
KernelNames == { << 97 >>, << 98 >> }

KEvent(op, name, krnl) == [op |-> op, name |-> name, krnl |-> krnl]

\* KernelMap kMap, empty after construction
EmptyMap == [n \in {} |-> 0]

\* OpenCLProgramMultipleKernels::operator[]: kMap.find, and for a name not in
\* the map clCreateKernel, SAMPLE_CHECK_ERRORS and the insertion.  fresh is
\* the handle the driver returns when the creation succeeds.
LookupKernel_NoCache(kMap, kernel_name, err, fresh) ==
    IF SAMPLE_CHECK_ERRORS(err)
    THEN [kMap |-> kMap, krnl |-> 0, threw |-> TRUE,
          kcalls |-> << KEvent("clCreateKernel", kernel_name, 0) >>]
    ELSE [kMap |-> kMap, krnl |-> fresh, threw |-> FALSE,
          kcalls |-> << KEvent("clCreateKernel", kernel_name, fresh) >>]

LookupKernel(kMap, kernel_name, err, fresh) ==
    IF kernel_name \notin DOMAIN kMap
    THEN IF SAMPLE_CHECK_ERRORS(err)
         THEN [kMap |-> kMap, krnl |-> 0, threw |-> TRUE,
               kcalls |-> << KEvent("clCreateKernel", kernel_name, 0) >>]
         ELSE [kMap |-> [n \in DOMAIN kMap \cup {kernel_name} |->
                            IF n = kernel_name THEN fresh ELSE kMap[n]],
               krnl |-> fresh, threw |-> FALSE,
               kcalls |-> << KEvent("clCreateKernel", kernel_name, fresh) >>]
    ELSE [kMap |-> kMap, krnl |-> kMap[kernel_name], threw |-> FALSE,
          kcalls |-> << >>]

\* the keys of a std::map in iteration order (ascending)
RECURSIVE MapOrder(_)
MapOrder(keys) ==
    IF keys = {} THEN << >>
    ELSE LET first == CHOOSE k \in keys : \A o \in keys : strcmp(k, o) <= 0
         IN  << first >> \o MapOrder(keys \ {first})

\* ~OpenCLProgramMultipleKernels, then ~OpenCLProgram: every kernel of kMap
\* that is not 0 is released, in map order, then the program if it is not 0;
\* the result of a release is not looked at
RECURSIVE ReleaseKernels(_, _)
ReleaseKernels(kMap, order) ==
    IF order = << >> THEN << >>
    ELSE (IF kMap[Head(order)] # 0
          THEN << KEvent("clReleaseKernel", Head(order), kMap[Head(order)]) >>
          ELSE << >>)
         \o ReleaseKernels(kMap, Tail(order))

DestroyKernels(kMap, prog) ==
    ReleaseKernels(kMap, MapOrder(DOMAIN kMap))
    \o (IF prog # 0 THEN << KEvent("clReleaseProgram", << >>, prog) >> ELSE << >>)

\* the prepared texts createAndBuildProgram is called with
BuildTexts == { << 0 >>, << 107, 0 >> }

BuildResults == {CL_SUCCESS, CL_BUILD_PROGRAM_FAILURE, CL_INVALID_BUILD_OPTIONS}

\* the calls of readProgramFile, of createAndBuildProgram and of the
\* constructor of OpenCLProgram (the latter with a driver that builds)
SourceInit ==
    \/ call \in [phase : {"call"}, fn : {"readProgramFile"},
                 file_name : FileNames, atDefault : Files, atExeDir : Files,
                 tellg : BOOLEAN]
    \/ \E n \in 0..MaxDevices : \E logs \in [1..n -> BuildLogs] :
         call \in [phase : {"call"}, fn : {"createAndBuildProgram"},
                   text : BuildTexts, num_of_devices : {n}, logs : {logs},
                   create : {CL_SUCCESS, CL_OUT_OF_RESOURCES},
                   build : BuildResults, failQuery : 0..2]
    \/ call \in [phase : {"call"}, fn : {"OpenCLProgram"},
                 program_file_name : {""} \cup FileNames,
                 program_text : Contents, atDefault : Files, atExeDir : Files]

ReadProgramFile ==
    /\ call.phase = "call"
    /\ call.fn = "readProgramFile"
    /\ call' = [call EXCEPT !.phase = "returned"]
               @@ readProgramFile(call.file_name, call.atDefault, call.atExeDir,
                                  call.tellg)
    /\ UNCHANGED <<interopVars, sel, basic, program>>

CreateAndBuildProgram ==
    /\ call.phase = "call"
    /\ call.fn = "createAndBuildProgram"
    /\ call' = [call EXCEPT !.phase = "returned"]
               @@ createAndBuildProgram(call.text, call.num_of_devices, call.logs,
                                        call.create, call.build, call.failQuery)
    /\ UNCHANGED <<interopVars, sel, basic, program>>

NewOpenCLProgram ==
    /\ call.phase = "call"
    /\ call.fn = "OpenCLProgram"
    /\ call' = [call EXCEPT !.phase = "returned"]
               @@ OpenCLProgram(call.program_file_name, call.program_text,
                                call.atDefault, call.atExeDir, TRUE, << >>,
                                CL_SUCCESS, CL_SUCCESS, 0)
    /\ UNCHANGED <<interopVars, sel, basic, program>>

InitSource ==
    InteropInit /\ sel = SelIdle /\ basic = BasicIdle /\ program = ProgramIdle
    /\ SourceInit

NextSource == ReadProgramFile \/ CreateAndBuildProgram \/ NewOpenCLProgram

SpecSource == InitSource /\ [][NextSource]_vars

MaxLookups == 3

\* the constructor calls of OpenCLProgramMultipleKernels
ProgramInit ==
    program \in [phase : {"new"}, program_file_name : {""} \cup FileNames,
                 program_text : Contents]

\* OpenCLProgramMultipleKernels::OpenCLProgramMultipleKernels, which is the
\* constructor of OpenCLProgram; an exception leaves no object
ConstructProgram ==
    /\ program.phase = "new"
    /\ \E atDefault \in Files, atExeDir \in Files, tellg \in BOOLEAN,
          build_log \in BuildLogs, create \in {CL_SUCCESS, CL_OUT_OF_RESOURCES},
          build \in BuildResults, failQuery \in 0..2 :
         LET r == OpenCLProgram(program.program_file_name, program.program_text,
                                atDefault, atExeDir, tellg, build_log, create,
                                build, failQuery)
         IN  program' = [program EXCEPT !.phase = IF r.ok THEN "object" ELSE "failed"]
                        @@ r
                        @@ [kMap |-> EmptyMap, kcalls |-> << >>, lookups |-> << >>]
    /\ UNCHANGED <<interopVars, sel, call, basic>>

\* a call of operator[]; lookups keeps what each call returned (krnl 0 when
\* it threw)
Lookup ==
    /\ program.phase = "object"
    /\ Len(program.lookups) < MaxLookups
    /\ \E kernel_name \in KernelNames, err \in {CL_SUCCESS, CL_OUT_OF_RESOURCES} :
         LET r == LookupKernel(program.kMap, kernel_name, err,
                               Len(program.kcalls) + 1)
         IN  program' = [program EXCEPT
                            !.kMap = r.kMap,
                            !.kcalls = @ \o r.kcalls,
                            !.lookups = Append(@, [name |-> kernel_name,
                                                   krnl |-> r.krnl])]
    /\ UNCHANGED <<interopVars, sel, call, basic>>

DestroyProgram ==
    /\ program.phase = "object"
    /\ program' = [program EXCEPT
                      !.phase = "destroyed",
                      !.kcalls = @ \o DestroyKernels(program.kMap, program.program)]
    /\ UNCHANGED <<interopVars, sel, call, basic>>

InitProgramObject ==
    InteropInit /\ sel = SelIdle /\ call = CallIdle /\ basic = BasicIdle
    /\ ProgramInit

NextProgram == ConstructProgram \/ Lookup \/ DestroyProgram

SpecProgram == InitProgramObject /\ [][NextProgram]_vars

(***************************************************************************)
(* Claims on program construction, kernel lookup, build and file loading   *)
(***************************************************************************)

ProgramBuilt == program.phase \in {"object", "failed"}

BothGiven == program.program_file_name # "" /\ program.program_text # << >>

NeitherGiven == program.program_file_name = "" /\ program.program_text = << >>

\* C21: a program constructed with both a file name and an inline text, or
\* with neither, raises an error before any file is opened and before any
\* driver call; with exactly one of them the constructor goes on to build
\* from that one: it opens the named file first, or it opens no file and
\* hands the inline text to the compiler
C21_OneSourceOnly ==
    ProgramBuilt =>
        /\ BothGiven \/ NeitherGiven =>
             /\ program.phase = "failed"
             /\ program.trace = << >>
             /\ program.calls = << >>
             /\ program.prepared = << >>
        /\ ~BothGiven /\ ~NeitherGiven /\ program.program_file_name # "" =>
             /\ program.trace # << >>
             /\ program.trace[1] = Event("open", program.program_file_name)
             /\ program.calls # << >> =>
                  /\ program.calls[1].op = "clCreateProgramWithSource"
                  /\ program.prepared # << >>
        /\ ~BothGiven /\ ~NeitherGiven /\ program.program_file_name = "" =>
             /\ program.trace = << >>
             /\ program.calls # << >>
             /\ program.calls[1].op = "clCreateProgramWithSource"
             /\ program.prepared = PrepareText(program.program_text)

C21_Witness ==
    /\ program.phase = "failed"
    /\ BothGiven
    /\ program.error = << "Both program file name and program text are specified. Should be one of them only." >>
    /\ program.trace = << >>
    /\ program.calls = << >>

Creations(name) ==
    { i \in DOMAIN program.kcalls :
        program.kcalls[i].op = "clCreateKernel" /\ program.kcalls[i].name = name }

Releases(krnl) ==
    { i \in DOMAIN program.kcalls :
        program.kcalls[i].op = "clReleaseKernel" /\ program.kcalls[i].krnl = krnl }

LookupsOf(name) ==
    { i \in DOMAIN program.lookups : program.lookups[i].name = name }

\* the lookups of a name made while no earlier lookup of it had succeeded
Uncached(name) ==
    { i \in LookupsOf(name) :
        \A k \in LookupsOf(name) : k < i => program.lookups[k].krnl = 0 }

HasKernels == program.phase \in {"object", "destroyed"}

\* what every lookup sequence keeps: a name returns the kernel of its first
\* successful lookup, only successful creations are cached, and destruction
\* releases each cached kernel once and nothing else
CacheConsistent ==
    /\ \A i, j \in DOMAIN program.lookups :
         i < j /\ program.lookups[i].name = program.lookups[j].name
         /\ program.lookups[i].krnl # 0
         => program.lookups[j].krnl = program.lookups[i].krnl
    /\ DOMAIN program.kMap =
         { program.lookups[i].name :
             i \in { k \in DOMAIN program.lookups : program.lookups[k].krnl # 0 } }
    /\ \A n \in DOMAIN program.kMap : program.kMap[n] # 0
    /\ program.phase = "destroyed" =>
         /\ \A n \in DOMAIN program.kMap :
              Cardinality(Releases(program.kMap[n])) = 1
         /\ Cardinality({ i \in DOMAIN program.kcalls :
                            program.kcalls[i].op = "clReleaseKernel" })
            = Cardinality(DOMAIN program.kMap)

\* C22 as stated: after any sequence of lookups clCreateKernel was called at
\* most once per name, every lookup of a name returned the kernel of the
\* first successful lookup of the name, a failed creation cached nothing and
\* destruction released each cached kernel exactly once
C22_CreateOncePerName ==
    HasKernels =>
        /\ \A name \in KernelNames : Cardinality(Creations(name)) <= 1
        /\ CacheConsistent

\* C22 amended: clCreateKernel succeeded at most once per name and is never
\* called for a name that is cached: it is called once for every lookup made
\* while no earlier lookup of the name had succeeded, so a name whose
\* creation failed is created again by its next lookup; the rest as stated
C22_CreateOncePerCachedName ==
    HasKernels =>
        /\ \A name \in KernelNames :
             \A i, j \in Creations(name) :
                 i < j => program.kcalls[i].krnl = 0
        /\ \A name \in KernelNames :
             Cardinality(Creations(name)) = Cardinality(Uncached(name))
        /\ CacheConsistent

C22_Witness ==
    /\ program.phase = "destroyed"
    /\ Len(program.lookups) = 3
    /\ \A i \in 1..3 : program.lookups[i].name = << 97 >>
    /\ program.lookups[1].krnl = 0
    /\ program.lookups[2].krnl # 0
    /\ program.lookups[3].krnl = program.lookups[2].krnl
    /\ Cardinality(Creations(<< 97 >>)) = 2
    /\ Cardinality(Releases(program.lookups[2].krnl)) = 1

Built == call.phase = "returned" /\ call.fn = "createAndBuildProgram"

\* the build step reported CL_BUILD_PROGRAM_FAILURE for at least one device
BuildFailure ==
    /\ Built
    /\ call.create = CL_SUCCESS
    /\ call.build = CL_BUILD_PROGRAM_FAILURE
    /\ call.num_of_devices >= 1

\* the lines of part occur in text, in order and next to each other
ContainsLines(text, part) ==
    \E k \in 0..(Len(text) - Len(part)) :
        SubSeq(text, k + 1, k + Len(part)) = part

\* C23: when the build step reports a build failure (and the log queries
\* succeed), the error raised carries the build log of every target device,
\* and with one target device its payload is that device's log, verbatim
C23_EveryDeviceLog ==
    BuildFailure /\ call.failQuery = 0 =>
        /\ ~call.ok
        /\ \A i \in 1..call.num_of_devices :
             ContainsLines(call.error, call.logs[i])
        /\ call.num_of_devices = 1 => call.error = call.logs[1]

QueryCalls ==
    { i \in DOMAIN call.calls :
        call.calls[i].op \in {"clGetProgramBuildInfo_length",
                              "clGetProgramBuildInfo_log"} }

\* C24: after a build failure, a failing build-log query (the length query or
\* the text query) makes createAndBuildProgram raise the driver's error, the
\* failing query being its last call, and no program is returned; a build
\* result that is neither success nor build failure raises an error with no
\* build-log query made
C24_QueryFailuresRaise ==
    Built /\ call.create = CL_SUCCESS =>
        /\ BuildFailure /\ call.failQuery # 0 =>
             /\ ~call.ok
             /\ ~call.returned
             /\ call.error = DriverError(CL_OUT_OF_RESOURCES)
             /\ call.calls[Len(call.calls)].op =
                  IF call.failQuery = 1 THEN "clGetProgramBuildInfo_length"
                  ELSE "clGetProgramBuildInfo_log"
        /\ call.build \notin {CL_SUCCESS, CL_BUILD_PROGRAM_FAILURE} =>
             /\ ~call.ok
             /\ ~call.returned
             /\ call.error = DriverError(call.build)
             /\ QueryCalls = {}

C24_Witness ==
    /\ BuildFailure
    /\ call.failQuery = 1
    /\ ~call.returned
    /\ call.error = DriverError(CL_OUT_OF_RESOURCES)
    /\ Len(call.calls) = 3
    /\ call.calls[3].op = "clGetProgramBuildInfo_length"

FileRead == call.phase = "returned" /\ call.fn = "readProgramFile"

Warnings ==
    { i \in DOMAIN call.trace :
        call.trace[i] = Event("cerr", WarningText(call.file_name)) }

Retries ==
    { i \in DOMAIN call.trace :
        call.trace[i] = Event("open", exe_dir \o call.file_name) }

\* C25: file loading opens the given path first and the path in the
\* executable's directory only when that open failed; when the first open
\* succeeds nothing is written to cerr; when the first fails and the second
\* succeeds one warning is written, before the second open, and the file in
\* the executable's directory is loaded (its length being known); when both
\* fail the error names the path in the executable's directory and no data
\* is returned
C25_TwoLocations ==
    FileRead =>
        /\ call.trace[1] = Event("open", call.file_name)
        /\ Retries # {} <=> ~call.atDefault.exists
        /\ call.atDefault.exists =>
             /\ \A i \in DOMAIN call.trace : call.trace[i].op # "cerr"
             /\ call.tellg => call.ok /\ call.data = Append(call.atDefault.bytes, 0)
        /\ ~call.atDefault.exists /\ call.atExeDir.exists =>
             /\ Cardinality(Warnings) = 1
             /\ Cardinality(Retries) = 1
             /\ \A w \in Warnings : \A r \in Retries : w < r
             /\ call.tellg => call.ok /\ call.data = Append(call.atExeDir.bytes, 0)
        /\ ~call.atDefault.exists /\ ~call.atExeDir.exists =>
             /\ ~call.ok
             /\ call.error = "Cannot open file " \o inquotes(exe_dir \o call.file_name)
             /\ call.data = << >>

C25_Witness ==
    /\ FileRead
    /\ ~call.atDefault.exists
    /\ call.atExeDir.exists
    /\ call.ok
    /\ Len(call.trace) = 5
    /\ call.trace[2] = Event("cerr", WarningText(call.file_name))
    /\ call.trace[3] = Event("open", exe_dir \o call.file_name)
    /\ call.data = << 107, 107, 0 >>

\* the buffer is the source followed by one zero byte
Terminated(buffer, source) ==
    /\ Len(buffer) = Len(source) + 1
    /\ SubSeq(buffer, 1, Len(source)) = source
    /\ buffer[Len(buffer)] = 0

\* C26: the buffer readProgramFile returns for a file of n bytes, and the
\* buffer the constructor hands to the compiler for a file of n bytes or an
\* inline text of n characters, has length n + 1, starts with the n bytes of
\* the source unchanged and ends with a zero byte
C26_ZeroTerminated ==
    /\ FileRead /\ call.ok =>
         Terminated(call.data, IF call.atDefault.exists THEN call.atDefault.bytes
                               ELSE call.atExeDir.bytes)
    /\ call.phase = "returned" /\ call.fn = "OpenCLProgram" /\ call.calls # << >> =>
         /\ call.calls[1].op = "clCreateProgramWithSource"
         /\ Terminated(call.prepared,
                       IF call.program_file_name = "" THEN call.program_text
                       ELSE IF call.atDefault.exists THEN call.atDefault.bytes
                       ELSE call.atExeDir.bytes)

C26_Witness ==
    /\ call.phase = "returned"
    /\ call.fn = "OpenCLProgram"
    /\ call.program_file_name = ""
    /\ call.program_text = << 107, 0 >>
    /\ call.ok
    /\ call.prepared = << 107, 0, 0 >>

(***************************************************************************)
(* Claims on the zero-copy test and on the performance report              *)
(***************************************************************************)

FramePrefix(ev) ==
    IF ev = "WM_SIZE" THEN << GL_API_CHECK("glViewport") >> ELSE << >>

ZeroCopyWarnings(l) == { i \in DOMAIN l : l[i] = "printf_WARNING" }

RECURSIVE WithoutWarnings(_)
WithoutWarnings(l) ==
    IF l = << >> THEN << >>
    ELSE IF Head(l) = "printf_WARNING" THEN WithoutWarnings(Tail(l))
    ELSE << Head(l) >> \o WithoutWarnings(Tail(l))

\* the frame that has just run found the mapped pointer unfit for zero copy
\* and ended as the frame r (one with a fit pointer, run from the same
\* state) ends: the same calls in the same order, the same result, the same
\* handles, flags, counters and quit message
SameFrame(r) ==
    /\ failed' = r.failed
    /\ result' = r.ok
    /\ WithoutWarnings(log') = r.log
    /\ glError' = r.glErr
    /\ g_mem' = (IF r.mem = "keep" THEN g_mem ELSE r.mem)
    /\ acquired' = (IF r.acq = "keep" THEN acquired ELSE r.acq = "yes")
    /\ mapped' = (IF r.map = "keep" THEN mapped ELSE r.map = "yes")
    /\ quit' = (r.entered /\ ~(g_InitDone /\ r.ok))
    /\ g_iteration' = (IF r.ok /\ g_iteration = g_iterations_num THEN 0
                       ELSE IF r.ok THEN g_iteration + 1 ELSE g_iteration)
    /\ g_kernel_time' = (IF r.ok /\ g_iteration = g_iterations_num THEN 0
                         ELSE IF r.kernelDone THEN g_kernel_time + 1
                         ELSE g_kernel_time)

\* C27: a BufferMap frame whose mapped pointer fails the zero-copy test runs
\* as the frame with a pointer that passes it runs from the same state (same
\* calls, same result, same final state), and prints the zero-copy warning
\* exactly once
C27_ZeroCopyWarningOnly ==
    [][ ~quit /\ event' \in {"WM_PAINT", "WM_SIZE"} /\ hostPtr' = "unaligned" =>
          /\ g_mode = "eModeBufferMap"
          /\ Cardinality(ZeroCopyWarnings(log')) = 1
          /\ Pos(log', "printf_WARNING") = Pos(log', "verifyZeroCopyPtr") + 1
          /\ \E f \in DOMAIN FrameTable[FramePrefix(event'), g_mode,
                                         g_bImplicitSync, TRUE, glError] :
                SameFrame(FrameTable[FramePrefix(event'), g_mode,
                                     g_bImplicitSync, TRUE, glError][f]) ]_vars

C27_Witness ==
    /\ event = "WM_PAINT"
    /\ hostPtr = "unaligned"
    /\ result
    /\ failed = "none"
    /\ ~quit
    /\ Cardinality(ZeroCopyWarnings(log)) = 1
    /\ log[Len(log)] = "SwapBuffers"
    /\ g_mem = "null"
    /\ ~mapped

\* C28: a report is printed exactly when N = 255 frames were rendered since
\* the counters were last reset: the frame that prints it is the N-th, the
\* kernel, update and render sums it reports are the sums over these N
\* frames (one tick a frame) and are divided by N, the counters are zero
\* after it, and a rendered frame that prints no report is not yet the N-th
C28_ReportEveryN ==
    /\ report.printed =>
         /\ report.frames = g_iterations_num
         /\ report.divisor = g_iterations_num
         /\ report.kernel = g_iterations_num
         /\ report.update = g_iterations_num
         /\ report.render = g_iterations_num
         /\ CountersZero
    /\ FrameEvent /\ result /\ ~report.printed => g_iteration < g_iterations_num

(***************************************************************************)
(* The multi-queue Mandelbrot renderer (examples/opencl/src/main.cpp).     *)
(* realMain is the host thread: setSize (called by the constructor),       *)
(* render, readout, waitForEvents, stbi_write_png.  Every device has one   *)
(* in-order command queue, which executes its commands one after the       *)
(* other, concurrently with the host and with the other queues.            *)
(***************************************************************************)

MaxHeight == 5

MaxQueues == 3

Widths == {1, 2}

\* setSize: the partition of the rows among the queues
batchSize(height, q) ==
    LET b == height \div q
    IN  IF b * q < height THEN b + (height % q) ELSE b

\* render: queue i gets the kernel with offset (0, i * batchSize) and global
\* size (width, batchSize), i from 0
KernelCommand(i, b) == [cmd |-> "kernel", first |-> i * b, count |-> b]

\* readout: queue i gets a non-blocking read of width * batchSize bytes to
\* buffer + i * width * batchSize
ReadCommand(i, width, b) ==
    [cmd |-> "read", first |-> i * width * b, count |-> width * b]

MandelbrotInit ==
    call \in [phase : {"constructed"}, fn : {"realMain"}, width : Widths,
              height : 0..MaxHeight, q : 1..MaxQueues]

\* MandelbrotContext(): setSize after the queues were created
SetSize ==
    /\ call.phase = "constructed"
    /\ call' = [call EXCEPT !.phase = "sized"]
               @@ [batchSize |-> batchSize(call.height, call.q),
                   queues |-> [i \in 1..call.q |-> << >>],
                   executed |-> [i \in 1..call.q |-> << >>],
                   written |-> FALSE]
    /\ UNCHANGED <<interopVars, sel, basic, program>>

\* an enqueue that the driver refuses throws cl::Error (exceptions are
\* enabled); fail is the queue whose enqueue throws, 0 for none
RECURSIVE EnqueueAll(_, _, _, _)
EnqueueAll(queues, commands, i, fail) ==
    IF i > Len(commands) \/ i = fail THEN queues
    ELSE EnqueueAll([queues EXCEPT ![i] = Append(@, commands[i])],
                    commands, i + 1, fail)

RenderKernels ==
    /\ call.phase = "sized"
    /\ \E fail \in 0..call.q :
         call' = [call EXCEPT
                    !.phase = IF fail = 0 THEN "rendered" ELSE "thrown",
                    !.queues = EnqueueAll(@, [i \in 1..call.q |->
                                   KernelCommand(i - 1, call.batchSize)], 1, fail)]
    /\ UNCHANGED <<interopVars, sel, basic, program>>

Readout ==
    /\ call.phase = "rendered"
    /\ \E fail \in 0..call.q :
         call' = [call EXCEPT
                    !.phase = IF fail = 0 THEN "reading" ELSE "thrown",
                    !.queues = EnqueueAll(@, [i \in 1..call.q |->
                                   ReadCommand(i - 1, call.width, call.batchSize)],
                                   1, fail)]
    /\ UNCHANGED <<interopVars, sel, basic, program>>

\* the command stores past the end of the host buffer realMain allocated
\* (width * height bytes)
Overruns(c) ==
    c.cmd = "read" /\ c.first + c.count > call.width * call.height

\* a device completes the first pending command of its queue; a read that
\* stores past the end of the host buffer either goes unnoticed or ends the
\* process
Execute ==
    /\ call.phase \in {"sized", "rendered", "reading", "waited", "written", "thrown"}
    /\ \E i \in 1..call.q :
         /\ call.queues[i] # << >>
         /\ \/ call' = [call EXCEPT
                          !.queues[i] = Tail(@),
                          !.executed[i] = Append(@, Head(call.queues[i]))]
            \/ /\ Overruns(Head(call.queues[i]))
               /\ call' = [call EXCEPT !.phase = "crashed"]
    /\ UNCHANGED <<interopVars, sel, basic, program>>

ReadDone(i) == \E k \in DOMAIN call.executed[i] : call.executed[i][k].cmd = "read"

\* cl::Event::waitForEvents returns when every event of the list is complete
WaitForEvents_First ==
    /\ call.phase = "reading"
    /\ ReadDone(1)
    /\ call' = [call EXCEPT !.phase = "waited"]
    /\ UNCHANGED <<interopVars, sel, basic, program>>

WaitForEvents ==
    /\ call.phase = "reading"
    /\ \A i \in 1..call.q : ReadDone(i)
    /\ call' = [call EXCEPT !.phase = "waited"]
    /\ UNCHANGED <<interopVars, sel, basic, program>>

\* stbi_write_png reads the host buffer
WritePng ==
    /\ call.phase = "waited"
    /\ call' = [call EXCEPT !.phase = "written", !.written = TRUE]
    /\ UNCHANGED <<interopVars, sel, basic, program>>

InitMandelbrot ==
    InteropInit /\ sel = SelIdle /\ basic = BasicIdle /\ program = ProgramIdle
    /\ MandelbrotInit

NextMandelbrot ==
    SetSize \/ RenderKernels \/ Readout \/ Execute \/ WaitForEvents \/ WritePng

SpecMandelbrot == InitMandelbrot /\ [][NextMandelbrot]_vars

\* the kernel command dispatched to queue i, pending or executed
KernelsOf(i) ==
    { c \in { call.queues[i][k] : k \in DOMAIN call.queues[i] }
            \cup { call.executed[i][k] : k \in DOMAIN call.executed[i] } :
        c.cmd = "kernel" }

RowsOf(c) == c.first .. (c.first + c.count - 1)

Dispatched == call.phase \in {"rendered", "reading", "waited", "written", "crashed"}

\* C29: the row ranges dispatched to the queues do not overlap, once render
\* has returned every image row lies in the range of exactly one queue, and
\* the image is written only when the read-back of every queue has completed
C29_DisjointCoverAndBarrier ==
    call.phase \notin {"idle", "constructed"} =>
        /\ \A i, j \in 1..call.q : \A c \in KernelsOf(i), e \in KernelsOf(j) :
             i # j => RowsOf(c) \cap RowsOf(e) = {}
        /\ \A i \in 1..call.q : Cardinality(KernelsOf(i)) <= 1
        /\ Dispatched =>
             \A row \in 0..(call.height - 1) :
                 Cardinality({ i \in 1..call.q :
                                 \E c \in KernelsOf(i) : row \in RowsOf(c) }) = 1
        /\ call.written => \A i \in 1..call.q : ReadDone(i)

C29_Witness ==
    /\ call.phase = "written"
    /\ call.q = 3
    /\ call.height = 5
    /\ call.batchSize = 3
    /\ \A i \in 1..3 : ReadDone(i)

\* the reads queue i holds or has completed
ReadsOf(i) ==
    { c \in { call.queues[i][k] : k \in DOMAIN call.queues[i] }
            \cup { call.executed[i][k] : k \in DOMAIN call.executed[i] } :
        c.cmd = "read" }

\* C38 (as claimed): for every height and every number q >= 1 of queues the
\* batches fit the image, q * batchSize <= height, and the read-back of every
\* queue stays inside the host buffer of width * height bytes.
C38_ReadbackInsideBuffer ==
    call.phase \notin {"idle", "constructed"} =>
        /\ call.q * call.batchSize <= call.height
        /\ \A i \in 1..call.q : \A c \in ReadsOf(i) : ~Overruns(c)

\* ---------------------------------------------------------------------
\* The selectors of a run: the platform is selected before the device type
\* name is parsed

\* the driver calls selectPlatform makes: with no platform the first
\* clGetPlatformIDs fails and nothing follows; else two clGetPlatformInfo
\* for every platform of the listing
selectPlatformCalls(platforms) ==
    IF platforms = << >> THEN << "clGetPlatformIDs" >>
    ELSE << "clGetPlatformIDs", "clGetPlatformIDs" >>
         \o [i \in 1..(2 * Len(platforms)) |-> "clGetPlatformInfo"]

CannotRecognize == "Cannot recognize"

\* InitCL as far as the device type: selectPlatform, its check, and
\* parseDeviceType after them
InitCL_DeviceType(platforms, platform_name, device_type_name) ==
    LET p == selectPlatform(platforms, platform_name)
        t == parseDeviceType(device_type_name)
    IN  IF platforms = << >> \/ p.outcome # "selected"
        THEN [error |-> "platform selection failed",
              driver |-> selectPlatformCalls(platforms)]
        ELSE IF t.outcome = CannotRecognize
        THEN [error |-> CannotRecognize,
              driver |-> selectPlatformCalls(platforms)]
        ELSE [error |-> "none", driver |-> selectPlatformCalls(platforms)]

\* OpenCLBasic::selectDevice as far as the first clGetDeviceIDs: the
\* platform test, parseDeviceType, then the count of the devices
selectDevice_DeviceType(platform, device_type_name) ==
    LET t == parseDeviceType(device_type_name)
    IN  IF platform = 0
        THEN [error |-> "Platform is not selected", driver |-> << >>]
        ELSE IF t.outcome = CannotRecognize
        THEN [error |-> CannotRecognize, driver |-> << >>]
        ELSE [error |-> "none", driver |-> << "clGetDeviceIDs" >>]

\* the device type names of the runs: every piece alone, and after "gpu|"
DeviceTypeNames ==
    ParsePieces \cup {<<103, 112, 117, 124>> \o p : p \in ParsePieces}

\* a run of InitCL, or a call of selectDevice on an object with or without
\* a platform
SelectorInit ==
    \E t \in DeviceTypeNames :
        \/ \E l \in PlatformLists, s \in Selectors :
               call = [phase |-> "call", fn |-> "InitCL", platforms |-> l,
                       platform_name |-> s, platform |-> 0, text |-> t]
        \/ \E h \in {0, 1} :
               call = [phase |-> "call", fn |-> "selectDevice",
                       platforms |-> << >>, platform_name |-> << >>,
                       platform |-> h, text |-> t]

InitCLDeviceType ==
    /\ call.phase = "call"
    /\ call.fn = "InitCL"
    /\ call' = [call EXCEPT !.phase = "returned"]
               @@ InitCL_DeviceType(call.platforms, call.platform_name,
                                    call.text)
    /\ UNCHANGED <<interopVars, sel, basic, program>>

SelectDeviceType ==
    /\ call.phase = "call"
    /\ call.fn = "selectDevice"
    /\ call' = [call EXCEPT !.phase = "returned"]
               @@ selectDevice_DeviceType(call.platform, call.text)
    /\ UNCHANGED <<interopVars, sel, basic, program>>

InitSelectors ==
    InteropInit /\ sel = SelIdle /\ basic = BasicIdle /\ program = ProgramIdle
    /\ SelectorInit

NextSelectors == InitCLDeviceType \/ SelectDeviceType

SpecSelectors == InitSelectors /\ [][NextSelectors]_vars

\* C30: when the error of an unknown device type is raised, no platform
\* enumeration and no device enumeration has been called in the run
C30_DetectedBeforeDriverCalls ==
    (call.phase = "returned" /\ call.error = CannotRecognize)
        => \A i \in 1..Len(call.driver) :
               call.driver[i] \notin {"clGetPlatformIDs", "clGetDeviceIDs"}

\* ---------------------------------------------------------------------
\* The frame, step by step

\* the calls of a frame that give the shared object back: the release of the
\* acquired object, and in BufferMap mode the map of the compute buffer, its
\* unmap and its release
GiveBack ==
    {"clEnqueueReleaseGLObjects", "clEnqueueMapBuffer",
     "clEnqueueUnmapMemObject", "clReleaseMemObject"}

\* C31: in every frame each call that gives the shared object back (the
\* release; in BufferMap mode the map, the unmap and the release of the
\* compute buffer) comes after the kernel was enqueued and a clFinish that
\* followed it has returned without error; and whenever the message loop can
\* start another frame, the object of the frame before is released (not
\* acquired, no compute buffer of a frame left).
C31_FinishBeforeRelease ==
    /\ FrameEvent =>
         \A n \in GiveBack :
             In(n) => /\ Before("clEnqueueNDRangeKernel", "clFinish_kernel")
                      /\ Before("clFinish_kernel", n)
                      /\ failed # "clFinish_kernel"
    /\ pc = "loop" /\ ~quit => ~acquired /\ g_mem # "hostbuffer"

\* a second frame in a row has dispatched and released
C31_Witness ==
    /\ FrameEvent /\ result /\ g_iteration = 2
    /\ g_mode = "eModeTexture"
    /\ Before("clFinish_kernel", "clEnqueueReleaseGLObjects")

Zero == Quotient(0, 1)

\* the component of the pattern that carries the frame counter, by mode
Varying(mode) ==
    CASE mode = "eModeTexture" -> 1
      [] mode = "eModeBufferPBO" -> 2
      [] mode = "eModeBufferMap" -> 3

\* C32: a frame that enqueues the kernel enqueues the image kernel over the
\* 2D range (g_width, g_height) exactly when the mode is Texture, and the
\* buffer kernel over the 1D range g_width * g_height in the two buffer
\* modes; of the first three components of the pattern the one of the mode
\* (red in Texture, green in BufferPBO, blue in BufferMap) carries the frame
\* counter (over g_iterations_num in Texture mode) and the two others are
\* zero.
C32_KernelAndPatternByMode ==
    [][ ~quit /\ event' \in {"WM_PAINT", "WM_SIZE"}
        /\ kernelCall' # NoKernelCall =>
          /\ (g_mode = "eModeTexture") = (kernelCall'.kernel = "g_kernel_image")
          /\ (g_mode # "eModeTexture") = (kernelCall'.kernel = "g_kernel_buffer")
          /\ kernelCall'.kernel = "g_kernel_image" =>
               /\ kernelCall'.work_dim = 2
               /\ kernelCall'.global_work_size = << g_width, g_height >>
               /\ kernelCall'.pattern[1] = Quotient(g_iteration, g_iterations_num)
          /\ kernelCall'.kernel = "g_kernel_buffer" =>
               /\ kernelCall'.work_dim = 1
               /\ kernelCall'.global_work_size = << g_width * g_height >>
               /\ kernelCall'.pattern[Varying(g_mode)] = Quotient(g_iteration, 1)
          /\ \A c \in 1..3 \ {Varying(g_mode)} : kernelCall'.pattern[c] = Zero
      ]_vars

\* a frame of each buffer mode has enqueued the kernel with a counter that
\* is not zero
C32_Witness ==
    /\ FrameEvent /\ result /\ g_mode = "eModeBufferMap"
    /\ kernelCall.kernel = "g_kernel_buffer"
    /\ kernelCall.pattern[3] = Quotient(2, 1)

\* a comes before b in the calls l
Precedes(l, a, b) == 0 < Pos(l, a) /\ Pos(l, a) < Pos(l, b)

\* how often n was called in l
Count(l, n) == Cardinality({i \in DOMAIN l : l[i] = n})

\* the calls of a BufferMap frame the order of which is claimed
MapFrameOrder ==
    << "glMapBuffer", "clCreateBuffer", "clEnqueueNDRangeKernel",
       "clEnqueueMapBuffer", "clEnqueueUnmapMemObject", "clReleaseMemObject",
       "glUnmapBuffer", "glTexSubImage2D" >>

\* what a successful frame itself does in BufferMap mode
MapFrameCalls(l) ==
    /\ \A i \in 1..(Len(MapFrameOrder) - 1) :
           Precedes(l, MapFrameOrder[i], MapFrameOrder[i + 1])
    /\ Count(l, "clCreateBuffer") = 1
    /\ Count(l, "clReleaseMemObject") = 1

\* C33 (as claimed): a successful frame in BufferMap mode maps the graphics
\* buffer, creates a compute buffer, enqueues the kernel, maps and unmaps the
\* compute buffer, releases it, unmaps the graphics buffer and updates the
\* texture, in this order; it creates and releases exactly one compute
\* buffer; and no compute memory object is live between the frames of this
\* mode: g_mem names none when the frame starts and none when it has ended.
C33_MapFrameSequence ==
    [][ ~quit /\ event' \in {"WM_PAINT", "WM_SIZE"} /\ result'
        /\ g_mode = "eModeBufferMap" =>
          /\ MapFrameCalls(log')
          /\ g_mem = "null"
          /\ g_mem' = "null"
      ]_vars

\* glTexSubImage2D(GL_TEXTURE_2D, 0, 0, 0, g_width, g_height, ..., NULL): the
\* region updated, read from the buffer bound to GL_PIXEL_UNPACK_BUFFER
glTexSubImage2D ==
    [xoffset |-> 0, yoffset |-> 0, width |-> g_width, height |-> g_height]

\* the texture as glTexImage2D made it
g_texture == [width |-> g_width, height |-> g_height]

\* the pixel buffer object is bound to GL_PIXEL_UNPACK_BUFFER at call i
PboBound(i) ==
    \E j \in 1..(i - 1) :
        /\ log[j] = "glBindBuffer_pbo"
        /\ \A k \in (j + 1)..(i - 1) : log[k] # "glBindBuffer_0"

EarlyFrame(prefix, ev) ==
    /\ pc = "start"
    /\ ~g_InitDone
    /\ \E failAt \in FailPoints(prefix) :
         LET r == Exec(prefix, 1, failAt, glError)
         IN  /\ quit' = (quit \/ r.ok)
             /\ glError' = r.glErr
             /\ event' = ev
             /\ log' = SubSeq(Names(prefix), 1, r.last)
             /\ failed' = IF failAt \in 1..r.last THEN prefix[failAt].n
                          ELSE "none"
             /\ result' = FALSE
             /\ hostPtr' = "none"
             /\ report' = NoReport
             /\ kernelCall' = NoKernelCall
    /\ UNCHANGED <<pc, g_mode, g_mem, g_pbo, g_InitDone, g_bImplicitSync,
                   g_iteration, g_overall_fps, g_full_update_time,
                   g_kernel_time, g_render_time, acquired, mapped, libVars>>

EarlyPaint == EarlyFrame(<< >>, "WM_PAINT")

EarlySize == EarlyFrame(<< GL_API_CHECK("glViewport") >>, "WM_SIZE")

\* the runs of main in which no command is given: initialization, the
\* messages before and after it, the end of the message loop
NextStartup ==
    \/ EarlyPaint
    \/ EarlySize
    \/ InitInstance
    \/ WM_PAINT
    \/ WM_SIZE
    \/ WM_DESTROY
    \/ MessageLoopEnd

SpecStartup == Init /\ [][NextStartup]_vars

\* the calls of InitCL that make a compute object, or ask the driver for one
ComputeCalls ==
    {"selectPlatform", "findDevice", "clCreateContext",
     "clCreateCommandQueue", "clCreateFromGLTexture", "createAndBuildProgram",
     "clCreateKernel_buffer", "clCreateKernel_image"}

\* what is made in the compute context
ContextUsers ==
    {"clCreateCommandQueue", "clCreateFromGLTexture", "createAndBuildProgram",
     "clCreateKernel_buffer", "clCreateKernel_image"}

\* C35: in the calls of initialization InitGL (the GL context created and
\* made current) has passed before any call of InitCL, the device search has
\* passed before clCreateContext, and clCreateContext has passed before the
\* queue, the shared object, the program and the kernels are created;
\* g_InitDone is set only by an initialization that made them all; and a
\* WM_PAINT or WM_SIZE handled while g_InitDone is false calls nothing of
\* Render and enqueues no kernel.
C35_InitOrderAndNoEarlyFrame ==
    /\ event = "init" =>
         /\ \A c \in ComputeCalls :
                In(c) => Before("InitGL", c) /\ failed # "InitGL"
         /\ In("clCreateContext") =>
                Before("findDevice", "clCreateContext") /\ failed # "findDevice"
         /\ \A c \in ContextUsers :
                In(c) => Before("clCreateContext", c)
                         /\ failed # "clCreateContext"
         /\ g_InitDone = (result /\ \A c \in ComputeCalls : In(c))
    /\ g_InitDone => pc # "start"
    /\ FrameEvent /\ ~g_InitDone =>
         /\ \A i \in 1..Len(log) : log[i] = "glViewport"
         /\ kernelCall = NoKernelCall
         /\ ~acquired /\ ~mapped /\ g_iteration = 0

\* initialization has completed after a paint request that came too early
C35_Witness ==
    /\ event = "init" /\ g_InitDone /\ quit /\ pc = "loop"
    /\ In("clCreateKernel_image")

\* ---------------------------------------------------------------------
\* g_bImplicitSync

\* the handlers after initialization leave g_bImplicitSync as it is: no
\* frame, mode switch, report or exit command writes it
FlagKeptAfterInit == [][pc = "loop" => g_bImplicitSync' = g_bImplicitSync]_vars

\* C36 (as claimed): after a successful InitCL g_bImplicitSync is true exactly
\* when the device InitCL goes on with (g_device) advertises cl_khr_gl_event;
\* InitCL is the only writer of the flag (FlagKeptAfterInit, which holds of
\* Spec).
C36_FlagIffDeviceHasGLEvent ==
    (call.phase = "returned" /\ call.fn = "InitCL" /\ call.ok) =>
        /\ call.g_device # 0
        /\ call.g_bImplicitSync = call.devices[call.g_device].gl_event

\* ---------------------------------------------------------------------
\* The objects of the modes

\* the handles name the objects of the mode, and only those
ObjectsOfMode ==
    /\ (g_pbo # 0) = (g_mode \in {"eModeBufferPBO", "eModeBufferMap"})
    /\ (g_mem # "null") = (g_mode \in {"eModeTexture", "eModeBufferPBO"})
    /\ g_mem = MemOfMode(g_mode)

\* the calls of a handler that create a compute memory object
MemCreates ==
    {"clCreateFromGLTexture", "clCreateFromGLBuffer", "clCreateBuffer"}

\* the calls l of a successful mode switch from handles mem and pbo release
\* what these name, once, before anything is created
ReleasedBeforeCreated(l, mem, pbo) ==
    /\ Count(l, "clReleaseMemObject") = (IF mem # "null" THEN 1 ELSE 0)
    /\ Count(l, "glDeleteBuffers") = (IF pbo # 0 THEN 1 ELSE 0)
    /\ Count(l, "glGenBuffers") <= 1
    /\ Cardinality({i \in DOMAIN l : l[i] \in MemCreates}) <= 1
    /\ \A i, j \in DOMAIN l :
           /\ l[i] \in {"clReleaseMemObject", "glDeleteBuffers"}
           /\ l[j] \in MemCreates \cup {"glGenBuffers"}
           => i < j

\* C37: a successful initialization leaves the objects of the mode (a pixel
\* buffer object exactly in the two buffer modes, a compute object in g_mem
\* exactly in Texture and BufferPBO mode); from such a state every successful
\* frame and every successful mode switch leads to such a state again; a
\* successful switch releases each object the old mode had, once, before it
\* creates the one object of each kind of the new mode, and a successful
\* BufferMap frame has released the one buffer it created: at most one of
\* each kind is live and nothing is left behind over repeated switches.
C37_ObjectsOfModeKept ==
    [][ /\ event' = "init" /\ result' => ObjectsOfMode'
        /\ pc = "loop" /\ ~quit /\ ObjectsOfMode /\ result'
           /\ event' \in {"WM_PAINT", "WM_SIZE", "VK_TAB"} =>
             /\ ObjectsOfMode'
             /\ ~acquired' /\ ~mapped'
             /\ event' = "VK_TAB" => ReleasedBeforeCreated(log', g_mem, g_pbo)
             /\ event' # "VK_TAB" =>
                  /\ g_mem' = g_mem /\ g_pbo' = g_pbo
                  /\ Count(log', "clCreateBuffer")
                       = Count(log', "clReleaseMemObject")
                  /\ Count(log', "clCreateBuffer") <= 1
      ]_vars

\* a successful switch from BufferMap mode back to Texture mode
C37_Witness ==
    /\ event = "VK_TAB" /\ result /\ g_mode = "eModeTexture"
    /\ ObjectsOfMode
    /\ In("glDeleteBuffers") /\ In("clCreateFromGLTexture")
    /\ ~In("clReleaseMemObject")

\* ---------------------------------------------------------------------
\* The frame counter in the pattern

\* C39: at every frame that enqueues the kernel, g_iteration is in 0..255;
\* the component of the cl_uchar4 pattern that carries it is equal to it (the
\* conversion to cl_uchar does not wrap), and the red component of the
\* cl_float4 pattern, g_iteration / g_iterations_num, lies in [0, 1].
C39_CounterFitsPattern ==
    [][ ~quit /\ event' \in {"WM_PAINT", "WM_SIZE"}
        /\ kernelCall' # NoKernelCall =>
          /\ g_iteration \in 0..255
          /\ kernelCall'.type = "cl_uchar4" =>
               /\ kernelCall'.pattern[Varying(g_mode)].n = g_iteration
               /\ kernelCall'.pattern[Varying(g_mode)].d = 1
          /\ kernelCall'.type = "cl_float4" =>
               /\ kernelCall'.pattern[1].n = g_iteration
               /\ kernelCall'.pattern[1].d > 0
               /\ 0 <= kernelCall'.pattern[1].n
               /\ kernelCall'.pattern[1].n <= kernelCall'.pattern[1].d
      ]_vars

\* the frame that prints the report has enqueued the buffer kernel with the
\* counter at 255
C39_Witness ==
    /\ FrameEvent /\ result /\ report.printed
    /\ g_mode = "eModeBufferPBO"
    /\ kernelCall.pattern[2] = Quotient(255, 1)

\* ---------------------------------------------------------------------
\* Objects created by a construction that fails
\* ---------------------------------------------------------------------

\* the constructions of OpenCLBasic and the calls of createAndBuildProgram.
\* An exception leaving the constructor ends the construction: the object
\* never existed, so ~OpenCLBasic is not run for it (Destroy needs the
\* phase "object")
InitConstruction ==
    \/ InitBasic /\ basic.phase = "new"
    \/ InitSource /\ call.fn = "createAndBuildProgram"

NextConstruction == Construct \/ Destroy \/ CreateAndBuildProgram

SpecConstruction == InitConstruction /\ [][NextConstruction]_vars

\* the constructor threw after clCreateContext had returned a context
ContextLeftLive ==
    /\ basic.phase = "threw"
    /\ basic.obj.context # 0
    /\ ~\E i \in 1..Len(basic.calls) : basic.calls[i] = "clReleaseContext"

\* createAndBuildProgram threw after clCreateProgramWithSource had returned
\* a program
ProgramLeftLive ==
    /\ call.phase = "returned"
    /\ call.fn = "createAndBuildProgram"
    /\ ~call.ok
    /\ call.create = CL_SUCCESS
    /\ ~\E i \in 1..Len(call.calls) : call.calls[i].op = "clReleaseProgram"

\* C40: no compute object is left live without an owner when construction
\* fails: a context created by the constructor of OpenCLBasic is released
\* when the queue creation after it fails, and a program object created by
\* createAndBuildProgram is released when the function raises after it
C40_FailedConstructionReleases ==
    /\ ~ContextLeftLive
    /\ ~ProgramLeftLive
====
